---- MODULE Spec2Model ----
(***************************************************************************)
(* Commit-lineage analysis of commitDetective: the circuit breaker and the *)
(* timeout race around every pull-request fetch, the cross-validation of   *)
(* the squash detectors, the work-queue lineage builder and the            *)
(* depth-bounded expansion of nested squashed pull requests.               *)
(***************************************************************************)
EXTENDS Integers, Sequences, FiniteSets, TLC

VARIABLES
    \* ---- CircuitBreaker (analyze-commit-lineage.ts:110-149) and the clock
    failures,         \* CircuitBreaker.failures
    lastFailureTime,  \* CircuitBreaker.lastFailureTime
    now,              \* Date.now(), in ms
    \* ---- concurrent callers of one breaker, each running
    \* ---- execute(() => withTimeout(fetch, operationTimeoutMs))
    calls,            \* caller -> [pc, deadline, outcome, invoked]
    abandoned,        \* caller -> a timed-out fetch of it is still running remotely
    failedSinceOk,    \* history: operations failed since the last successful one
    lastFailedAt,     \* history: the time at which an operation last failed
    \* ---- AdvancedSquashDetector (unnamed/part_017), one detectSquash call
    config,           \* SquashAnalysisConfig: enabledMethods, confidenceThreshold
    analysisDepth,    \* SquashAnalysisConfig: analysisDepth
    pr,               \* what the algorithms share of mergeCommit, prCommits, prData
    dpc,              \* position in detectSquash: the next algorithm, then the result
    detectionResults, \* detectSquash's detectionResults
    verdict,          \* what detectSquash returned
    fetchFailed,      \* history: a commit fetch of the algorithm run last was rejected
    timeline,         \* prData.timelineEvents handed to the events algorithm on its own
    \* ---- analyzeCommitLineage (analyze-commit-lineage.ts:350-477), one call
    gateway,          \* pull request -> what the gateway answers, once asked
    processedPRs,     \* processedPRs, of analyzeCommitLineage or of analyzeWithDepth
    fetchLog,         \* history: the pull requests the gateway was asked for
    apc,              \* position of the call: loop head, awaiting a fetch, returned
    prQueue,          \* prQueue
    prsAnalyzed,      \* prsAnalyzed
    iterations,       \* iterations
    nodes,            \* nodes, as the sequence of its values
    pullRequestNumber, \* the pull request of the current iteration
    deadline,         \* when the timer of the pending withTimeout fires
    firstCall,        \* history: what an earlier call with the same arguments returned
    \* ---- AnalysisDepthManager (unnamed/part_015), one top-level analyzeWithDepth
    stack,            \* the calls of analyzeWithDepth in progress, the root first
    expandLog,        \* history: pull request and depth of every call entered
    returned          \* what the top-level call returned, once it has

cbVars == <<failures, lastFailureTime, now, calls, abandoned, failedSinceOk, lastFailedAt>>
detVars == <<config, analysisDepth, pr, dpc, detectionResults, verdict, fetchFailed,
             timeline>>
anVars == <<gateway, processedPRs, fetchLog, apc, prQueue, prsAnalyzed, iterations,
            nodes, pullRequestNumber, deadline>>
deepVars == <<stack, expandLog, returned>>

vars == <<failures, lastFailureTime, now, calls, abandoned, failedSinceOk, lastFailedAt,
          config, analysisDepth, pr, dpc, detectionResults, verdict, fetchFailed,
          timeline,
          gateway, processedPRs, fetchLog, apc, prQueue, prsAnalyzed, iterations,
          nodes, pullRequestNumber, deadline, firstCall,
          stack, expandLog, returned>>

\* What the breaker and its callers leave alone.
notBreaker == <<detVars, anVars, deepVars, firstCall>>
\* What the detector leaves alone.
notDetector == <<cbVars, anVars, deepVars, firstCall>>

-----------------------------------------------------------------------------
(* A subsystem that takes no part in a specification rests in these states *)

DetectorIdle ==
    /\ config = [enabledMethods |-> {}, confidenceThreshold |-> 0,
                 crossValidationRequired |-> FALSE]
    /\ analysisDepth = "shallow"
    /\ pr = [commitCount |-> 0, parentCount |-> 0, message |-> {}]
    /\ dpc = 0
    /\ detectionResults = <<>>
    /\ verdict = [isSquash |-> FALSE, confidence |-> [num |-> 0, den |-> 1]]
    /\ fetchFailed = FALSE
    /\ timeline = <<>>

AnalyzeIdle ==
    /\ gateway = <<>>
    /\ apc = "idle"
    /\ prQueue = <<>>
    /\ processedPRs = {}
    /\ prsAnalyzed = <<>>
    /\ iterations = 0
    /\ nodes = <<>>
    /\ pullRequestNumber = 0
    /\ deadline = 0
    /\ fetchLog = <<>>
    /\ firstCall = <<>>

DeepIdle ==
    /\ stack = <<>>
    /\ expandLog = <<>>
    /\ returned = <<>>

-----------------------------------------------------------------------------
(* Program constants *)

maxFailures == 3
resetTimeoutMs == 60000
operationTimeoutMs == 30000
maxIterations == 50
maxQueueLength == 20

(* Bounds of the model *)

NumCallers == 2
MaxTicks == 6
MaxPrCommits == 3
MaxTimeline == 2
MaxBranchCommits == 2

\* The clock advances in steps of half the operation deadline.
TickMs == operationTimeoutMs \div 2
\* Date.now() at construction: far from the epoch, so the initial
\* lastFailureTime = 0 is older than any reset window.
StartNow == resetTimeoutMs
EndNow == StartNow + MaxTicks * TickMs

Callers == 1..NumCallers

-----------------------------------------------------------------------------
(* CircuitBreaker *)

\* isOpen(): failures >= maxFailures && Date.now() - lastFailureTime < resetTimeoutMs
isOpen_OffByOne ==
    failures > maxFailures /\ (now - lastFailureTime) < resetTimeoutMs
isOpen_NeverCloses ==
    failures >= maxFailures
isOpen ==
    failures >= maxFailures /\ (now - lastFailureTime) < resetTimeoutMs

\* onSuccess(): failures = 0
onSuccess ==
    failures' = 0 /\ UNCHANGED lastFailureTime

\* onFailure(): failures++; lastFailureTime = Date.now()
onFailure_NoCount ==
    UNCHANGED failures /\ lastFailureTime' = now
onFailure ==
    failures' = failures + 1 /\ lastFailureTime' = now

\* withTimeout(promise, timeoutMs): the timer of the race is armed when the
\* operation is invoked and rejects timeoutMs later.
withTimeout_deadline_None ==
    EndNow + TickMs
withTimeout_deadline ==
    now + operationTimeoutMs

IdleCall ==
    [pc |-> "idle", started |-> 0, deadline |-> 0, outcome |-> "none",
     invoked |-> FALSE]

BreakerInit ==
    /\ failures = 0
    /\ lastFailureTime = 0
    /\ now = StartNow

CallersInit ==
    /\ calls = [c \in Callers |-> IdleCall]
    /\ abandoned = [c \in Callers |-> FALSE]
    /\ failedSinceOk = 0
    /\ lastFailedAt = 0

Execute_CountsRejection(c) ==
    /\ calls[c].pc = "idle"
    /\ IF isOpen
          THEN /\ calls' = [calls EXCEPT ![c] =
                      [pc |-> "done", started |-> 0, deadline |-> 0,
                       outcome |-> "CircuitOpen", invoked |-> FALSE]]
               /\ onFailure
          ELSE /\ calls' = [calls EXCEPT ![c] =
                      [pc |-> "pending", started |-> now,
                       deadline |-> withTimeout_deadline,
                       outcome |-> "none", invoked |-> TRUE]]
               /\ UNCHANGED <<failures, lastFailureTime>>
    /\ UNCHANGED <<now, abandoned, failedSinceOk, lastFailedAt>>
    /\ UNCHANGED notBreaker

Execute_ResetsAfterWindow(c) ==
    /\ calls[c].pc = "idle"
    /\ IF isOpen
          THEN /\ calls' = [calls EXCEPT ![c] =
                      [pc |-> "done", started |-> 0, deadline |-> 0,
                       outcome |-> "CircuitOpen", invoked |-> FALSE]]
               /\ UNCHANGED <<failures, failedSinceOk>>
          ELSE /\ calls' = [calls EXCEPT ![c] =
                      [pc |-> "pending", started |-> now,
                       deadline |-> withTimeout_deadline,
                       outcome |-> "none", invoked |-> TRUE]]
               /\ failures' = IF failures >= maxFailures THEN 0 ELSE failures
               /\ failedSinceOk' = IF failures >= maxFailures THEN 0 ELSE failedSinceOk
    /\ UNCHANGED <<lastFailureTime, now, abandoned, lastFailedAt>>
    /\ UNCHANGED notBreaker

\* execute(operation), up to the first await: throws at once when the breaker
\* is open, otherwise invokes the operation, which starts the fetch and arms
\* the timer of withTimeout.
Execute(c) ==
    /\ calls[c].pc = "idle"
    /\ IF isOpen
          THEN calls' = [calls EXCEPT ![c] =
                   [pc |-> "done", started |-> 0, deadline |-> 0,
                    outcome |-> "CircuitOpen", invoked |-> FALSE]]
          ELSE calls' = [calls EXCEPT ![c] =
                   [pc |-> "pending", started |-> now,
                    deadline |-> withTimeout_deadline,
                    outcome |-> "none", invoked |-> TRUE]]
    /\ UNCHANGED <<failures, lastFailureTime, now, abandoned, failedSinceOk, lastFailedAt>>
    /\ UNCHANGED notBreaker

\* The fetch resolves before the timer: the race resolves, execute runs
\* onSuccess() and returns the result.
OpResolves(c) ==
    /\ calls[c].pc = "pending"
    /\ now < calls[c].deadline
    /\ onSuccess
    /\ calls' = [calls EXCEPT ![c].pc = "done", ![c].outcome = "result"]
    /\ failedSinceOk' = 0
    /\ UNCHANGED <<now, abandoned, lastFailedAt>>
    /\ UNCHANGED notBreaker

\* The fetch rejects before the timer: the race rejects with the fetch's own
\* error, execute runs onFailure() and rethrows it.
OpRejects(c) ==
    /\ calls[c].pc = "pending"
    /\ now < calls[c].deadline
    /\ onFailure
    /\ calls' = [calls EXCEPT ![c].pc = "done", ![c].outcome = "error"]
    /\ failedSinceOk' = failedSinceOk + 1
    /\ lastFailedAt' = now
    /\ UNCHANGED <<now, abandoned>>
    /\ UNCHANGED notBreaker

\* The timer fires first: the race rejects with the timeout error, execute
\* runs onFailure() and rethrows it. The fetch itself is not cancelled.
TimerFires(c) ==
    /\ calls[c].pc = "pending"
    /\ now >= calls[c].deadline
    /\ onFailure
    /\ calls' = [calls EXCEPT ![c].pc = "done", ![c].outcome = "Timeout"]
    /\ abandoned' = [abandoned EXCEPT ![c] = TRUE]
    /\ failedSinceOk' = failedSinceOk + 1
    /\ lastFailedAt' = now
    /\ UNCHANGED now
    /\ UNCHANGED notBreaker

\* A fetch that lost the race settles later: nobody listens any more.
AbandonedSettles(c) ==
    /\ abandoned[c]
    /\ abandoned' = [abandoned EXCEPT ![c] = FALSE]
    /\ UNCHANGED <<failures, lastFailureTime, now, calls, failedSinceOk, lastFailedAt>>
    /\ UNCHANGED notBreaker

\* The caller takes the result or the error of execute and may call again.
Return(c) ==
    /\ calls[c].pc = "done"
    /\ calls' = [calls EXCEPT ![c] = IdleCall]
    /\ UNCHANGED <<failures, lastFailureTime, now, abandoned, failedSinceOk, lastFailedAt>>
    /\ UNCHANGED notBreaker

\* Time passes. A timer that is due fires before the clock moves on.
Tick ==
    /\ now < EndNow
    /\ \A c \in Callers : calls[c].pc = "pending" => now < calls[c].deadline
    /\ now' = now + TickMs
    /\ UNCHANGED <<failures, lastFailureTime, calls, abandoned, failedSinceOk, lastFailedAt>>
    /\ UNCHANGED notBreaker

CallExecute == \E c \in Callers : Execute(c)
FetchResolves == \E c \in Callers : OpResolves(c)
FetchRejects == \E c \in Callers : OpRejects(c)
DeadlineExpires == \E c \in Callers : TimerFires(c)
LateSettle == \E c \in Callers : AbandonedSettles(c)
CallReturns == \E c \in Callers : Return(c)

InitCB == BreakerInit /\ CallersInit /\ DetectorIdle /\ AnalyzeIdle /\ DeepIdle

NextCB ==
    \/ CallExecute
    \/ FetchResolves
    \/ FetchRejects
    \/ DeadlineExpires
    \/ LateSettle
    \/ CallReturns
    \/ Tick

SpecCB == InitCB /\ [][NextCB]_vars

-----------------------------------------------------------------------------
(* Claims about the resilience wrapper, checked under SpecCB *)

\* The step in which caller c calls execute.
ExecuteStep(c) == calls[c].pc = "idle" /\ calls'[c].pc # "idle"
\* The step in which the execute call of caller c, having invoked its
\* operation, comes back with a result or an error.
SettleStep(c) == calls[c].pc = "pending" /\ calls'[c].pc = "done"

\* C3: once maxFailures operations have failed with no success in between,
\* and while less than resetTimeoutMs has passed since the last failure,
\* every execute call fails with the breaker-open error and does not invoke
\* its operation.
C3_OpenFailsFast ==
    [][\A c \in Callers :
          (/\ ExecuteStep(c)
           /\ failedSinceOk >= maxFailures
           /\ now - lastFailedAt < resetTimeoutMs)
          => (/\ calls'[c].pc = "done"
              /\ calls'[c].outcome = "CircuitOpen"
              /\ ~calls'[c].invoked)]_vars

C3_Witness ==
    \E c \in Callers :
        /\ calls[c].outcome = "CircuitOpen"
        /\ failedSinceOk >= maxFailures
        /\ now - lastFailedAt < resetTimeoutMs

\* C4: every successful operation sets the failure counter to zero, every
\* failed one adds exactly one to it and records the time of the failure: the
\* counter is the number of operations failed since the last successful one.
C4_CounterCountsFailures ==
    /\ failures = failedSinceOk
    /\ lastFailureTime = lastFailedAt

C4_Witness ==
    /\ failures = 2
    /\ lastFailureTime = now
    /\ now > StartNow
    /\ \E c \in Callers : calls[c].outcome \in {"error", "Timeout"}

\* C24: an execute call rejected because the breaker is open fails with the
\* breaker-open error, which no operation failure carries, does not invoke
\* its operation and leaves the failure counter and the last-failure
\* timestamp as they were, so that the open period is not extended.
C24_RejectionLeavesBreaker ==
    /\ [][\A c \in Callers :
              (ExecuteStep(c) /\ isOpen) =>
                  /\ calls'[c].outcome = "CircuitOpen"
                  /\ ~calls'[c].invoked
                  /\ failures' = failures
                  /\ lastFailureTime' = lastFailureTime]_vars
    /\ [][\A c \in Callers :
              (SettleStep(c) /\ calls[c].invoked) =>
                  calls'[c].outcome # "CircuitOpen"]_vars
    /\ [](\A c \in Callers :
             calls[c].outcome = "CircuitOpen" => ~calls[c].invoked)

\* A call was rejected some time after the last failure, and the timestamp
\* is still that of the failure.
C24_Witness ==
    \E c \in Callers :
        /\ calls[c].outcome = "CircuitOpen"
        /\ failures = maxFailures
        /\ lastFailureTime = lastFailedAt
        /\ lastFailureTime < now

\* C5: once resetTimeoutMs has passed since the last recorded failure, an
\* execute call invokes its operation, whatever the failure counter is.
C5_TrialAfterWindow ==
    [][\A c \in Callers :
          (ExecuteStep(c) /\ now - lastFailedAt >= resetTimeoutMs)
          => (calls'[c].pc = "pending" /\ calls'[c].invoked)]_vars

C5_Witness ==
    \E c \in Callers :
        /\ calls[c].pc = "pending"
        /\ calls[c].invoked
        /\ failures >= maxFailures
        /\ calls[c].started - lastFailedAt >= resetTimeoutMs

\* C6: a fetch that has not settled when operationTimeoutMs has passed makes
\* execute fail with the timeout error and adds exactly one to the failure
\* counter; a fetch that settles earlier yields its own result or error.
C6_TimeoutRace ==
    [][\A c \in Callers :
          SettleStep(c) =>
             IF now - calls[c].started >= operationTimeoutMs
                THEN /\ calls'[c].outcome = "Timeout"
                     /\ failures' = failures + 1
                ELSE calls'[c].outcome \in {"result", "error"}]_vars

C6_Witness ==
    \E c \in Callers :
        /\ calls[c].pc = "done"
        /\ calls[c].outcome = "Timeout"
        /\ now - calls[c].started >= operationTimeoutMs
        /\ failures >= 1

-----------------------------------------------------------------------------
(* JavaScript numbers: IEEE-754 binary64 arithmetic *)

\* The detector's confidences, weights and threshold are doubles, and its
\* sums, products and quotient round to the nearest double (ties to even).
\* A mantissa is a natural number kept as a little-endian sequence of limbs
\* below LimbBase.
LimbBase == 32768

RECURSIVE Pow2(_)
Pow2(k) == IF k = 0 THEN 1 ELSE 2 * Pow2(k - 1)

RECURSIVE BStrip(_)
BStrip(a) ==
    IF a = <<>> THEN <<>>
    ELSE IF a[Len(a)] = 0 THEN BStrip(SubSeq(a, 1, Len(a) - 1))
    ELSE a

Limb(a, i) == IF i <= Len(a) THEN a[i] ELSE 0

RECURSIVE BAddFrom(_, _, _, _)
BAddFrom(a, b, i, carry) ==
    IF i > Len(a) /\ i > Len(b)
       THEN IF carry = 0 THEN <<>> ELSE <<carry>>
       ELSE LET s == Limb(a, i) + Limb(b, i) + carry
            IN  <<s % LimbBase>> \o BAddFrom(a, b, i + 1, s \div LimbBase)
BAdd(a, b) == BAddFrom(a, b, 1, 0)

\* a - b for a >= b
RECURSIVE BSubFrom(_, _, _, _)
BSubFrom(a, b, i, borrow) ==
    IF i > Len(a) THEN <<>>
    ELSE LET d == Limb(a, i) - Limb(b, i) - borrow
         IN  IF d < 0 THEN <<d + LimbBase>> \o BSubFrom(a, b, i + 1, 1)
                      ELSE <<d>> \o BSubFrom(a, b, i + 1, 0)
BSub(a, b) == BStrip(BSubFrom(a, b, 1, 0))

\* -1, 0, 1 as a < b, a = b, a > b (both stripped)
RECURSIVE BCmpFrom(_, _, _)
BCmpFrom(a, b, i) ==
    IF i = 0 THEN 0
    ELSE IF a[i] < b[i] THEN -1
    ELSE IF a[i] > b[i] THEN 1
    ELSE BCmpFrom(a, b, i - 1)
BCmp(a, b) ==
    IF Len(a) < Len(b) THEN -1
    ELSE IF Len(a) > Len(b) THEN 1
    ELSE BCmpFrom(a, b, Len(a))

\* a * k for a small k (k < LimbBase)
RECURSIVE BMulSmallFrom(_, _, _, _)
BMulSmallFrom(a, k, i, carry) ==
    IF i > Len(a)
       THEN IF carry = 0 THEN <<>> ELSE <<carry>>
       ELSE LET p == a[i] * k + carry
            IN  <<p % LimbBase>> \o BMulSmallFrom(a, k, i + 1, p \div LimbBase)
BMulSmall(a, k) == BStrip(BMulSmallFrom(a, k, 1, 0))

Zeros(n) == [i \in 1..n |-> 0]

RECURSIVE BMulFrom(_, _, _)
BMulFrom(a, b, j) ==
    IF j > Len(b) THEN <<>>
    ELSE BAdd(Zeros(j - 1) \o BMulSmall(a, b[j]), BMulFrom(a, b, j + 1))
BMul(a, b) == BStrip(BMulFrom(a, b, 1))

\* floor(a / k) for a small k, high limb first
RECURSIVE BDivSmallFrom(_, _, _, _)
BDivSmallFrom(a, k, i, rem) ==
    IF i = 0 THEN <<>>
    ELSE LET cur == rem * LimbBase + a[i]
         IN  BDivSmallFrom(a, k, i - 1, cur % k) \o <<cur \div k>>
BDivSmall(a, k) == BStrip(BDivSmallFrom(a, k, Len(a), 0))

LimbBits == 15

BShl(a, k) ==
    IF a = <<>> THEN <<>>
    ELSE Zeros(k \div LimbBits) \o BMulSmall(a, Pow2(k % LimbBits))

\* floor(a / 2^k)
BShr(a, k) ==
    LET n == k \div LimbBits
    IN  IF n >= Len(a) THEN <<>>
        ELSE BDivSmall(SubSeq(a, n + 1, Len(a)), Pow2(k % LimbBits))

\* a mod 2^k
BLow(a, k) ==
    LET n == k \div LimbBits
        r == k % LimbBits
    IN  IF n >= Len(a) THEN a
        ELSE BStrip(SubSeq(a, 1, n) \o <<a[n + 1] % Pow2(r)>>)

RECURSIVE IntBits(_)
IntBits(x) == IF x = 0 THEN 0 ELSE 1 + IntBits(x \div 2)
BitLen(a) == IF a = <<>> THEN 0 ELSE (Len(a) - 1) * LimbBits + IntBits(a[Len(a)])

BOdd(a) == a # <<>> /\ a[1] % 2 = 1
BOne == <<1>>

\* A finite non-negative IEEE-754 binary64 number: m * 2^e with m = 0 or
\* 2^52 <= m < 2^53.
MantBits == 53
DZero == [m |-> <<>>, e |-> 0]

\* n * 2^e rounded to the nearest double, ties to even
DRound(n, e) ==
    LET len == BitLen(n)
    IN  IF len = 0 THEN DZero
        ELSE IF len <= MantBits
             THEN [m |-> BShl(n, MantBits - len), e |-> e - (MantBits - len)]
        ELSE LET s == len - MantBits
                 q == BShr(n, s)
                 rem == BLow(n, s)
                 half == BShl(BOne, s - 1)
                 c == BCmp(rem, half)
                 up == c = 1 \/ (c = 0 /\ BOdd(q))
                 q1 == IF up THEN BAdd(q, BOne) ELSE q
             IN  IF BitLen(q1) > MantBits
                    THEN [m |-> BShr(q1, 1), e |-> e + s + 1]
                    ELSE [m |-> q1, e |-> e + s]

DMul(a, b) == DRound(BMul(a.m, b.m), a.e + b.e)

DAdd(a, b) ==
    IF a.m = <<>> THEN b
    ELSE IF b.m = <<>> THEN a
    ELSE LET e == IF a.e < b.e THEN a.e ELSE b.e
         IN  DRound(BAdd(BShl(a.m, a.e - e), BShl(b.m, b.e - e)), e)

\* floor(a * 2^k / b) bit by bit, with the remainder's being zero
RECURSIVE DivBits(_, _, _, _)
DivBits(r, b, k, q) ==
    IF k = 0 \/ Len(q) + Len(r) < 0 THEN [q |-> q, exact |-> r = <<>>]
    ELSE LET r2 == BShl(r, 1)
             q2 == BShl(q, 1)
         IN  IF BCmp(r2, b) >= 0
                THEN DivBits(BSub(r2, b), b, k - 1, BAdd(q2, BOne))
                ELSE DivBits(r2, b, k - 1, q2)

GuardBits == 56
DDiv(a, b) ==
    IF a.m = <<>> THEN DZero
    ELSE LET first == IF BCmp(a.m, b.m) >= 0
                         THEN [q |-> BOne, r |-> BSub(a.m, b.m)]
                         ELSE [q |-> <<>>, r |-> a.m]
             d == DivBits(first.r, b.m, GuardBits, first.q)
             sticky == BAdd(BShl(d.q, 1), IF d.exact THEN <<>> ELSE BOne)
         IN  DRound(sticky, a.e - b.e - GuardBits - 1)

DCmp(a, b) ==
    IF a.m = <<>> /\ b.m = <<>> THEN 0
    ELSE IF a.m = <<>> THEN -1
    ELSE IF b.m = <<>> THEN 1
    ELSE IF a.e < b.e THEN -1
    ELSE IF a.e > b.e THEN 1
    ELSE BCmp(a.m, b.m)


DInt(n) == DRound(<<n>>, 0)

\* The double a literal of n hundredths (0.95, 0.4, 0.05) denotes: the
\* double nearest to n/100.
DLit == [n \in 0..100 |-> DDiv(DInt(n), DInt(100))]

-----------------------------------------------------------------------------
(* AdvancedSquashDetector: the seven algorithms *)

\* config.enabledMethods is matched against these names, in this order.
Methods ==
    << "github-api-strategy", "timestamp-pattern",
       "author-committer-discrepancy", "commit-tree-structure",
       "github-events-api", "diff-analysis", "legacy-heuristics" >>

MethodNames == {Methods[i] : i \in 1..Len(Methods)}

\* A SquashDetectionResult. confidence and weight are the hundredths of the
\* literal in the source: 95 is 0.95, 5 is 0.05.
Result(method, isSquash, confidence, weight) ==
    [method |-> method, isSquash |-> isSquash, confidence |-> confidence,
     weight |-> weight]

\* The patterns a commit message is tested against; a message is kept as the
\* set of the patterns it matches.
squashPatterns ==
    {"squash", "pr-number", "conventional", "bullet", "co-authored-by"}

analyzeSquashIndicatorsInMessage(message) ==
    \E pattern \in squashPatterns : pattern \in message

\* Method 1. malformed: reading prDetails throws. mergedBy: merged_by and
\* merge_commit_sha are set. commitsInMainBranch: how many of the first five
\* branch commits the host returned.
detectViaGitHubAPIStrategy(malformed, mergedBy, message, commitsInMainBranch, commitCount) ==
    IF malformed THEN Result("github-api-strategy", FALSE, 0, 40)
    ELSE IF mergedBy
         THEN LET hasSquashIndicators == analyzeSquashIndicatorsInMessage(message)
                  isSquash == /\ hasSquashIndicators
                              /\ commitsInMainBranch = 0
                              /\ commitCount > 1
              IN  Result("github-api-strategy", isSquash,
                         IF isSquash THEN 95 ELSE 30, 40)
    ELSE Result("github-api-strategy", FALSE, 10, 40)

\* Method 2. hasClusteredTimestamps: the branch commits lie within a minute.
\* mergeTimestampClose: the merge is within five minutes of their average.
detectViaTimestampPattern(commitCount, hasClusteredTimestamps, mergeTimestampClose) ==
    IF commitCount <= 1 THEN Result("timestamp-pattern", FALSE, 10, 20)
    ELSE LET isSquash == /\ hasClusteredTimestamps
                         /\ mergeTimestampClose
                         /\ commitCount > 1
         IN  Result("timestamp-pattern", isSquash,
                    IF isSquash THEN 70
                    ELSE IF hasClusteredTimestamps THEN 40 ELSE 20, 20)

\* Method 3.
detectViaAuthorCommitterDiscrepancy(commitCount, hasAuthorCommitterDiff, mergeAuthorInPrAuthors) ==
    LET isSquash == /\ hasAuthorCommitterDiff
                    /\ mergeAuthorInPrAuthors
                    /\ commitCount > 1
    IN  Result("author-committer-discrepancy", isSquash,
               IF isSquash THEN 60 ELSE 30, 15)

\* Method 4. mergeFetched, tipFetched: the host returned the details of the
\* merge commit, of the last branch commit. sameTree: their trees are equal.
detectViaCommitTreeStructure(commitCount, parentCount, mergeFetched, tipFetched, sameTree) ==
    IF commitCount <= 1 THEN Result("commit-tree-structure", FALSE, 10, 10)
    ELSE IF ~mergeFetched THEN Result("commit-tree-structure", FALSE, 0, 10)
    ELSE LET hasOneParent == parentCount = 1
             treeDifference == IF tipFetched THEN ~sameTree ELSE TRUE
             isSquash == hasOneParent /\ treeDifference /\ commitCount > 1
         IN  Result("commit-tree-structure", isSquash,
                    IF isSquash THEN 80 ELSE 30, 10)

\* Method 5. A timeline event is its name and, for a merged event that
\* carries one, its merge_strategy ("" when it carries none).
TimelineEvent(event, merge_strategy) ==
    [event |-> event, merge_strategy |-> merge_strategy]

\* The strategy the loop over the merge events stops at: that of the first
\* merged event that carries one.
RECURSIVE firstMergeStrategy(_)
firstMergeStrategy(mergeEvents) ==
    IF mergeEvents = <<>> THEN "unknown"
    ELSE IF /\ Head(mergeEvents).event = "merged"
            /\ Head(mergeEvents).merge_strategy # ""
         THEN Head(mergeEvents).merge_strategy
    ELSE firstMergeStrategy(Tail(mergeEvents))

detectViaGitHubEventsAPI(malformed, timelineEvents) ==
    IF malformed THEN Result("github-events-api", FALSE, 0, 30)
    ELSE LET mergeEvents ==
                 SelectSeq(timelineEvents,
                           LAMBDA e : e.event = "merged" \/ e.event = "closed")
             squashEventFound == firstMergeStrategy(mergeEvents) = "squash"
         IN  Result("github-events-api", squashEventFound,
                    IF squashEventFound THEN 95
                    ELSE IF Len(mergeEvents) > 0 THEN 20 ELSE 10, 30)

\* Method 6. statsSimilar: the merge commit's total is within the threshold
\* of the branch commits' combined total. hasChanges: that total is positive.
detectViaDiffAnalysis(commitCount, mergeFetched, statsSimilar, hasChanges) ==
    IF commitCount <= 1 THEN Result("diff-analysis", FALSE, 10, 5)
    ELSE IF ~mergeFetched THEN Result("diff-analysis", FALSE, 0, 5)
    ELSE LET isSquash == statsSimilar /\ commitCount > 1 /\ hasChanges
         IN  Result("diff-analysis", isSquash, IF isSquash THEN 60 ELSE 30, 5)

\* Method 7.
detectViaLegacyHeuristics(commitCount, parentCount, message) ==
    LET hasOneParent == parentCount = 1
        hasMultiplePrCommits == commitCount > 1
        hasSquashKeywords == analyzeSquashIndicatorsInMessage(message)
        isSquash == hasOneParent /\ hasMultiplePrCommits
    IN  Result("legacy-heuristics", isSquash,
               IF isSquash THEN (IF hasSquashKeywords THEN 70 ELSE 50) ELSE 20,
               10)

-----------------------------------------------------------------------------
(* AdvancedSquashDetector: cross-validation *)

\* The three reduces of crossValidateResults, over the real numbers: the
\* weights in hundredths, the scores in ten-thousandths.
RECURSIVE totalWeight_SquashOnly(_)
totalWeight_SquashOnly(results) ==
    IF results = <<>> THEN 0
    ELSE LET result == results[Len(results)]
         IN  totalWeight_SquashOnly(SubSeq(results, 1, Len(results) - 1))
                + (IF result.isSquash THEN result.weight ELSE 0)

RECURSIVE totalWeight(_)
totalWeight(results) ==
    IF results = <<>> THEN 0
    ELSE totalWeight(SubSeq(results, 1, Len(results) - 1))
            + results[Len(results)].weight

RECURSIVE weightedSquashScore(_)
weightedSquashScore(results) ==
    IF results = <<>> THEN 0
    ELSE LET result == results[Len(results)]
         IN  weightedSquashScore(SubSeq(results, 1, Len(results) - 1))
                + (IF result.isSquash THEN result.confidence * result.weight ELSE 0)

RECURSIVE weightedNonSquashScore(_)
weightedNonSquashScore(results) ==
    IF results = <<>> THEN 0
    ELSE LET result == results[Len(results)]
         IN  weightedNonSquashScore(SubSeq(results, 1, Len(results) - 1))
                + (IF ~result.isSquash THEN result.confidence * result.weight ELSE 0)

\* The same three reduces as the program computes them, in doubles.
RECURSIVE totalWeightDouble(_)
totalWeightDouble(results) ==
    IF results = <<>> THEN DZero
    ELSE DAdd(totalWeightDouble(SubSeq(results, 1, Len(results) - 1)),
              DLit[results[Len(results)].weight])

RECURSIVE weightedScoreDouble(_, _)
weightedScoreDouble(results, isSquash) ==
    IF results = <<>> THEN DZero
    ELSE LET result == results[Len(results)]
         IN  DAdd(weightedScoreDouble(SubSeq(results, 1, Len(results) - 1), isSquash),
                  IF result.isSquash = isSquash
                     THEN DMul(DLit[result.confidence], DLit[result.weight])
                     ELSE DZero)

Sign(x) == IF x > 0 THEN 1 ELSE IF x < 0 THEN -1 ELSE 0

\* weightedSquashScore against weightedNonSquashScore, as -1, 0 or 1. Two
\* scores that differ as real numbers differ by a ten-thousandth or more,
\* far more than the doubles are off, and compare as the real numbers do;
\* two scores that are equal as real numbers compare as their doubles do.
compareScores(results) ==
    LET squash == weightedSquashScore(results)
        nonSquash == weightedNonSquashScore(results)
    IN  IF squash # nonSquash THEN Sign(squash - nonSquash)
        ELSE DCmp(weightedScoreDouble(results, TRUE),
                  weightedScoreDouble(results, FALSE))

\* finalConfidence = Math.max(weightedSquashScore, weightedNonSquashScore)
\* / totalWeight as a real number: num / den hundredths.
finalConfidence(results) ==
    LET squash == weightedSquashScore(results)
        nonSquash == weightedNonSquashScore(results)
    IN  [num |-> IF squash > nonSquash THEN squash ELSE nonSquash,
         den |-> totalWeight(results)]

\* The double finalConfidence.
finalConfidenceDouble(results) ==
    LET squash == weightedScoreDouble(results, TRUE)
        nonSquash == weightedScoreDouble(results, FALSE)
    IN  DDiv(IF DCmp(squash, nonSquash) >= 0 THEN squash ELSE nonSquash,
             totalWeightDouble(results))

\* finalConfidence against the literal of t hundredths, as -1, 0 or 1:
\* decided by the real numbers where they differ (then by more than
\* 1/(100 * totalWeight)), and by the doubles where they are equal.
compareConfidence(results, t) ==
    LET c == finalConfidence(results)
    IN  IF c.num # t * c.den THEN Sign(c.num - t * c.den)
        ELSE DCmp(finalConfidenceDouble(results), DLit[t])

crossValidateResults_NoThreshold(results, confidenceThreshold) ==
    IF Len(results) = 0
       THEN [isSquash |-> FALSE, confidence |-> [num |-> 0, den |-> 1]]
       ELSE [isSquash |-> compareScores(results) > 0,
             confidence |-> finalConfidence(results)]

crossValidateResults(results, confidenceThreshold) ==
    IF Len(results) = 0
       THEN [isSquash |-> FALSE, confidence |-> [num |-> 0, den |-> 1]]
       ELSE LET isSquash == compareScores(results) > 0
                meetsThreshold == compareConfidence(results, confidenceThreshold) >= 0
            IN  [isSquash |-> isSquash /\ meetsThreshold,
                 confidence |-> finalConfidence(results)]

-----------------------------------------------------------------------------
(* AdvancedSquashDetector: one detectSquash call *)

\* The thresholds of the three presets of AnalysisDepthManager, and the 0.99 of
\* a detector constructed with a threshold that no verdict can meet.
Thresholds == {50, 60, 70, 99}

\* The configurations a detector is constructed with: any set of algorithms
\* and any of the thresholds; crossValidationRequired, which no code reads,
\* goes with the threshold as in the presets, false for 0.5 and true above.
Configs ==
    {[enabledMethods |-> enabledMethods,
      confidenceThreshold |-> confidenceThreshold,
      crossValidationRequired |-> confidenceThreshold > 50] :
        enabledMethods \in SUBSET MethodNames,
        confidenceThreshold \in Thresholds}

\* The presets of AnalysisDepthManager.
getDefaultConfig(depth) ==
    [analysisDepth |-> depth,
     enabledMethods |-> {"github-api-strategy", "timestamp-pattern",
                         "author-committer-discrepancy", "github-events-api",
                         "legacy-heuristics"},
     confidenceThreshold |-> 60,
     crossValidationRequired |-> TRUE]

getPerformanceConfig_WithDiff(depth) ==
    [analysisDepth |-> depth,
     enabledMethods |-> {"github-api-strategy", "timestamp-pattern",
                         "diff-analysis"},
     confidenceThreshold |-> 50,
     crossValidationRequired |-> FALSE]

getPerformanceConfig(depth) ==
    [analysisDepth |-> depth,
     enabledMethods |-> {"github-api-strategy", "timestamp-pattern",
                         "legacy-heuristics"},
     confidenceThreshold |-> 50,
     crossValidationRequired |-> FALSE]

getComprehensiveConfig(depth) ==
    [analysisDepth |-> depth,
     enabledMethods |-> MethodNames,
     confidenceThreshold |-> 70,
     crossValidationRequired |-> TRUE]

AnalysisDepths == {"shallow", "deep"}

Presets ==
    UNION {{getDefaultConfig(depth), getPerformanceConfig(depth),
            getComprehensiveConfig(depth)} : depth \in AnalysisDepths}

\* The detector and the manager are constructed with the configuration c:
\* its analysisDepth is kept apart from what the detector reads of it.
ConstructedWith(c) ==
    /\ analysisDepth = c.analysisDepth
    /\ config = [field \in DOMAIN c \ {"analysisDepth"} |-> c[field]]

\* Merge messages: one matching no pattern, one in the form "feat: x (#42)".
Messages == {{}, {"pr-number", "conventional"}}

\* A merge commit has one parent (squash, rebase) or two (a true merge).
ParentCounts == {1, 2}

PrInputs ==
    [commitCount : 1..MaxPrCommits, parentCount : ParentCounts,
     message : Messages]

EventKinds ==
    {TimelineEvent("committed", ""), TimelineEvent("closed", ""),
     TimelineEvent("merged", ""), TimelineEvent("merged", "squash"),
     TimelineEvent("merged", "merge"), TimelineEvent("merged", "rebase")}

Timelines ==
    UNION {[1..n -> EventKinds] : n \in 0..MaxTimeline}

Min(a, b) == IF a < b THEN a ELSE b

\* Position of detectSquash: before the algorithm Methods[dpc], then before
\* the cross-validation, then returned.
AtValidation == Len(Methods) + 1
Returned == Len(Methods) + 2

Enabled(i) == dpc = i /\ Methods[i] \in config.enabledMethods
Skipped(i) == dpc = i /\ Methods[i] \notin config.enabledMethods

\* detectionResults.push(result), or nothing for a method that is not enabled
Push(result, rejected) ==
    /\ detectionResults' = Append(detectionResults, result)
    /\ dpc' = dpc + 1
    /\ fetchFailed' = rejected
    /\ UNCHANGED <<config, analysisDepth, pr, verdict, timeline>>
    /\ UNCHANGED notDetector

Skip(i) ==
    /\ Skipped(i)
    /\ dpc' = dpc + 1
    /\ fetchFailed' = FALSE
    /\ UNCHANGED <<config, analysisDepth, pr, detectionResults, verdict, timeline>>
    /\ UNCHANGED notDetector

RunGitHubAPIStrategy ==
    \/ Skip(1)
    \/ /\ Enabled(1)
       /\ \E malformed \in BOOLEAN, mergedBy \in BOOLEAN,
             commitsInMainBranch \in 0..Min(pr.commitCount, 5) :
             Push(detectViaGitHubAPIStrategy(malformed, mergedBy, pr.message,
                                             commitsInMainBranch, pr.commitCount),
                  /\ ~malformed
                  /\ mergedBy
                  /\ commitsInMainBranch < Min(pr.commitCount, 5))

RunTimestampPattern ==
    \/ Skip(2)
    \/ /\ Enabled(2)
       /\ \E hasClusteredTimestamps \in BOOLEAN, mergeTimestampClose \in BOOLEAN :
             Push(detectViaTimestampPattern(pr.commitCount, hasClusteredTimestamps,
                                            mergeTimestampClose),
                  FALSE)

RunAuthorCommitterDiscrepancy ==
    \/ Skip(3)
    \/ /\ Enabled(3)
       /\ \E hasAuthorCommitterDiff \in BOOLEAN,
             mergeAuthorInPrAuthors \in BOOLEAN :
             Push(detectViaAuthorCommitterDiscrepancy(pr.commitCount,
                      hasAuthorCommitterDiff, mergeAuthorInPrAuthors),
                  FALSE)

RunCommitTreeStructure ==
    \/ Skip(4)
    \/ /\ Enabled(4)
       /\ \E mergeFetched \in BOOLEAN, tipFetched \in BOOLEAN, sameTree \in BOOLEAN :
             Push(detectViaCommitTreeStructure(pr.commitCount, pr.parentCount,
                      mergeFetched, tipFetched, sameTree),
                  pr.commitCount > 1 /\ (~mergeFetched \/ ~tipFetched))

RunGitHubEventsAPI ==
    \/ Skip(5)
    \/ /\ Enabled(5)
       /\ \E malformed \in BOOLEAN, timelineEvents \in Timelines :
             Push(detectViaGitHubEventsAPI(malformed, timelineEvents), FALSE)

RunDiffAnalysis ==
    \/ Skip(6)
    \/ /\ Enabled(6)
       /\ \E mergeFetched \in BOOLEAN, statsSimilar \in BOOLEAN, hasChanges \in BOOLEAN :
             Push(detectViaDiffAnalysis(pr.commitCount, mergeFetched, statsSimilar,
                                        hasChanges),
                  pr.commitCount > 1 /\ ~mergeFetched)

RunLegacyHeuristics ==
    \/ Skip(7)
    \/ /\ Enabled(7)
       /\ Push(detectViaLegacyHeuristics(pr.commitCount, pr.parentCount, pr.message),
               FALSE)

\* return this.crossValidateResults(detectionResults)
CrossValidate ==
    /\ dpc = AtValidation
    /\ verdict' = crossValidateResults(detectionResults, config.confidenceThreshold)
    /\ dpc' = Returned
    /\ UNCHANGED <<config, analysisDepth, pr, detectionResults, fetchFailed, timeline>>
    /\ UNCHANGED notDetector

BreakerIdle == BreakerInit /\ CallersInit

InitDetect ==
    /\ config \in Configs
    /\ analysisDepth = "shallow"
    /\ pr \in PrInputs
    /\ dpc = 1
    /\ detectionResults = <<>>
    /\ verdict = [isSquash |-> FALSE, confidence |-> [num |-> 0, den |-> 1]]
    /\ fetchFailed = FALSE
    /\ timeline = <<>>
    /\ BreakerIdle
    /\ AnalyzeIdle
    /\ DeepIdle

NextDetect ==
    \/ RunGitHubAPIStrategy
    \/ RunTimestampPattern
    \/ RunAuthorCommitterDiscrepancy
    \/ RunCommitTreeStructure
    \/ RunGitHubEventsAPI
    \/ RunDiffAnalysis
    \/ RunLegacyHeuristics
    \/ CrossValidate

SpecDetect == InitDetect /\ [][NextDetect]_vars

\* The events algorithm on its own: detectViaGitHubEventsAPI applied once to
\* the timeline of a pull request, every other subsystem at rest.
InitEvents ==
    /\ config = [enabledMethods |-> {}, confidenceThreshold |-> 0,
                 crossValidationRequired |-> FALSE]
    /\ analysisDepth = "shallow"
    /\ pr = [commitCount |-> 0, parentCount |-> 0, message |-> {}]
    /\ dpc = 0
    /\ detectionResults = <<>>
    /\ verdict = [isSquash |-> FALSE, confidence |-> [num |-> 0, den |-> 1]]
    /\ fetchFailed = FALSE
    /\ timeline \in Timelines
    /\ BreakerIdle
    /\ AnalyzeIdle
    /\ DeepIdle

ApplyGitHubEventsAPI ==
    /\ detectionResults = <<>>
    /\ \E malformed \in BOOLEAN :
          detectionResults' = <<detectViaGitHubEventsAPI(malformed, timeline)>>
    /\ UNCHANGED <<config, analysisDepth, pr, dpc, verdict, fetchFailed, timeline>>
    /\ UNCHANGED notDetector

NextEvents == ApplyGitHubEventsAPI

SpecEvents == InitEvents /\ [][NextEvents]_vars


-----------------------------------------------------------------------------
(* analyzeCommitLineage: commits, messages and the classification *)

\* A commit message is kept as the pull-request numbers it names in the form
\* "(#n)", in the order in which they appear, and the keywords it contains.
Message(refs, words) == [refs |-> refs, words |-> words]

\* message.match(/\(#(\d+)\)/): the first number named, null (0) without one.
\* parseInt of "(#0)" is 0, which the callers treat as no number.
parsePrNumberFromMessage(message) ==
    IF message.refs = <<>> THEN 0 ELSE message.refs[1]

\* A GitHubCommit: parents are the shas of its parents.
Commit(sha, message, parents) ==
    [sha |-> sha, message |-> message, parents |-> parents]

\* prData.mergeCommit of a pull request that is not merged: null.
NoCommit == Commit("", Message(<<>>, {}), <<>>)

\* squashKeywords.some(pattern => pattern.test(message)): /squash/i also
\* matches inside "squash!".
matchesSquashKeywords(message) ==
    \/ "squash" \in message.words
    \/ "squash!" \in message.words
    \/ message.refs # <<>>
    \/ "conventional" \in message.words

isSquashCommit_AnyCommit(mergeCommit, prCommits) ==
    IF Len(mergeCommit.parents) # 1 THEN FALSE
    ELSE IF Len(prCommits) >= 1 THEN TRUE
    ELSE matchesSquashKeywords(mergeCommit.message)
isSquashCommit(mergeCommit, prCommits) ==
    IF Len(mergeCommit.parents) # 1 THEN FALSE
    ELSE IF Len(prCommits) > 1 THEN TRUE
    ELSE matchesSquashKeywords(mergeCommit.message)

hasInteractiveRebasePatterns(mergeCommit) ==
    \E keyword \in {"fixup!", "squash!", "amend", "reword"} :
        keyword \in mergeCommit.message.words

hasSimpleRebasePatterns(mergeCommit, prCommits) ==
    Len(mergeCommit.parents) = 1 /\ Len(prCommits) >= 1

\* The type detectRebase reports, "" when it reports no rebase.
detectRebase(mergeCommit, prCommits, timelineEvents) ==
    LET forcePushEvents ==
            SelectSeq(timelineEvents, LAMBDA e : e = "head_ref_force_pushed")
    IN  IF Len(forcePushEvents) > 0
           THEN IF hasInteractiveRebasePatterns(mergeCommit)
                   THEN "Interactive Rebase" ELSE "Simple Rebase"
        ELSE IF hasInteractiveRebasePatterns(mergeCommit) THEN "Interactive Rebase"
        ELSE IF hasSimpleRebasePatterns(mergeCommit, prCommits) THEN "Simple Rebase"
        ELSE ""

\* The type detectGitOperation reports.
detectGitOperation(mergeCommit, prCommits, timelineEvents) ==
    IF Len(mergeCommit.parents) = 1
       THEN IF isSquashCommit(mergeCommit, prCommits) THEN "Squash"
            ELSE IF detectRebase(mergeCommit, prCommits, timelineEvents) # ""
                 THEN detectRebase(mergeCommit, prCommits, timelineEvents)
            ELSE "Fast-Forward"
    ELSE IF Len(mergeCommit.parents) > 1 THEN "Merge Commit"
    ELSE "Unknown"

-----------------------------------------------------------------------------
(* analyzeCommitLineage: the node map *)

\* nodes is a Map from sha to CommitNode; it is kept as the sequence of its
\* values in insertion order, which is what Array.from(nodes.values()) returns.
CommitNode(commit, branch, type, originalCommits) ==
    [sha |-> commit.sha, message |-> commit.message, parents |-> commit.parents,
     branch |-> branch, type |-> type, originalCommits |-> originalCommits]

MapHas(map, sha) == \E i \in DOMAIN map : map[i].sha = sha

MapGet(map, sha) == map[CHOOSE i \in DOMAIN map : map[i].sha = sha]

\* Map.set: a new key is added last, an existing key keeps its place.
MapSet(map, sha, node) ==
    IF MapHas(map, sha)
       THEN [i \in DOMAIN map |-> IF map[i].sha = sha THEN node ELSE map[i]]
       ELSE Append(map, node)

\* The test before each prQueue.push(nestedPrNumber).
shouldEnqueue_IgnoreVisited(nestedPrNumber, processed, queue) ==
    nestedPrNumber # 0 /\ Len(queue) < maxQueueLength
shouldEnqueue_NoCap(nestedPrNumber, processed, queue) ==
    nestedPrNumber # 0 /\ nestedPrNumber \notin processed
shouldEnqueue(nestedPrNumber, processed, queue) ==
    /\ nestedPrNumber # 0
    /\ nestedPrNumber \notin processed
    /\ Len(queue) < maxQueueLength

\* The labels of the head and of the base branch of pull request p.
HeadRef(p) == [ref |-> "head", pr |-> p]
BaseRef(p) == [ref |-> "base", pr |-> p]

\* The loop over prData.prCommits from the i-th commit on; acc holds nodes and
\* prQueue as the loop has left them so far, taken once per commit as soFar.
RECURSIVE processBranchCommits_Break(_, _, _, _, _)
processBranchCommits_Break(prCommits, prBranchName, processed, acc, i) ==
    IF i > Len(prCommits) THEN acc
    ELSE LET commit == prCommits[i]
             nestedPrNumber == parsePrNumberFromMessage(commit.message)
         IN  CHOOSE result \in
                 {IF MapHas(soFar.nodes, commit.sha) THEN soFar
                  ELSE processBranchCommits_Break(prCommits, prBranchName, processed,
                         [nodes |-> MapSet(soFar.nodes, commit.sha,
                                       CommitNode(commit, prBranchName, "Commit", <<>>)),
                          prQueue |-> IF shouldEnqueue(nestedPrNumber, processed,
                                                       soFar.prQueue)
                                         THEN Append(soFar.prQueue, nestedPrNumber)
                                         ELSE soFar.prQueue],
                         i + 1) : soFar \in {acc}} : TRUE

RECURSIVE processBranchCommits_Overwrite(_, _, _, _, _)
processBranchCommits_Overwrite(prCommits, prBranchName, processed, acc, i) ==
    IF i > Len(prCommits) THEN acc
    ELSE LET commit == prCommits[i]
             nestedPrNumber == parsePrNumberFromMessage(commit.message)
         IN  CHOOSE result \in
                 {processBranchCommits_Overwrite(prCommits, prBranchName, processed,
                         [nodes |-> MapSet(soFar.nodes, commit.sha,
                                       CommitNode(commit, prBranchName, "Commit", <<>>)),
                          prQueue |-> IF shouldEnqueue(nestedPrNumber, processed,
                                                       soFar.prQueue)
                                         THEN Append(soFar.prQueue, nestedPrNumber)
                                         ELSE soFar.prQueue],
                         i + 1) : soFar \in {acc}} : TRUE

RECURSIVE processBranchCommits(_, _, _, _, _)
processBranchCommits(prCommits, prBranchName, processed, acc, i) ==
    IF i > Len(prCommits) THEN acc
    ELSE LET commit == prCommits[i]
             nestedPrNumber == parsePrNumberFromMessage(commit.message)
         IN  CHOOSE result \in
                 {IF MapHas(soFar.nodes, commit.sha)
                     THEN processBranchCommits(prCommits, prBranchName, processed,
                                               soFar, i + 1)
                  ELSE processBranchCommits(prCommits, prBranchName, processed,
                         [nodes |-> MapSet(soFar.nodes, commit.sha,
                                       CommitNode(commit, prBranchName, "Commit", <<>>)),
                          prQueue |-> IF shouldEnqueue(nestedPrNumber, processed,
                                                       soFar.prQueue)
                                         THEN Append(soFar.prQueue, nestedPrNumber)
                                         ELSE soFar.prQueue],
                         i + 1) : soFar \in {acc}} : TRUE

ShasOf(commits) == [i \in DOMAIN commits |-> commits[i].sha]

processMergeCommit_KeepExisting(prData, prNumber, processed, acc) ==
    IF prData.mergeCommit = NoCommit THEN acc
    ELSE LET mergeCommit == prData.mergeCommit
             nestedPrNumber == parsePrNumberFromMessage(mergeCommit.message)
             type == detectGitOperation(mergeCommit, prData.prCommits,
                                        prData.timelineEvents)
             originalCommits ==
                 IF type = "Squash" /\ Len(prData.prCommits) > 0
                    THEN ShasOf(prData.prCommits) ELSE <<>>
             node ==
                 IF ~MapHas(acc.nodes, mergeCommit.sha)
                    THEN CommitNode(mergeCommit, BaseRef(prNumber), type,
                                    originalCommits)
                    ELSE MapGet(acc.nodes, mergeCommit.sha)
         IN  [nodes |-> MapSet(acc.nodes, mergeCommit.sha, node),
              prQueue |-> IF shouldEnqueue(nestedPrNumber, processed, acc.prQueue)
                             THEN Append(acc.prQueue, nestedPrNumber)
                             ELSE acc.prQueue]

\* The part of the iteration that handles prData.mergeCommit.
processMergeCommit(prData, prNumber, processed, acc) ==
    IF prData.mergeCommit = NoCommit THEN acc
    ELSE LET mergeCommit == prData.mergeCommit
             nestedPrNumber == parsePrNumberFromMessage(mergeCommit.message)
             type == detectGitOperation(mergeCommit, prData.prCommits,
                                        prData.timelineEvents)
             parents == mergeCommit.parents
             originalCommits ==
                 IF type = "Squash" /\ Len(prData.prCommits) > 0
                    THEN ShasOf(prData.prCommits) ELSE <<>>
             node ==
                 IF ~MapHas(acc.nodes, mergeCommit.sha)
                    THEN CommitNode(mergeCommit, BaseRef(prNumber), type,
                                    originalCommits)
                    ELSE [MapGet(acc.nodes, mergeCommit.sha) EXCEPT
                             !.branch = BaseRef(prNumber),
                             !.type = type,
                             !.parents = parents,
                             !.originalCommits = originalCommits]
         IN  [nodes |-> MapSet(acc.nodes, mergeCommit.sha, node),
              prQueue |-> IF shouldEnqueue(nestedPrNumber, processed, acc.prQueue)
                             THEN Append(acc.prQueue, nestedPrNumber)
                             ELSE acc.prQueue]

-----------------------------------------------------------------------------
(* The repository behind the gateway *)

\* A sha names one commit: its message and its parents never change.
commitA == Commit("a", Message(<<>>, {}), <<"base">>)
commitB == Commit("b", Message(<<5>>, {}), <<"a">>)
commitC == Commit("c", Message(<<7>>, {}), <<"base">>)
commitD == Commit("d", Message(<<>>, {}), <<"base", "a">>)

\* The commits that the pull requests 5 and 7 are built of.
RichCommits == {commitA, commitB, commitC, commitD}

\* The pull requests that exist, and those an analysis may start from.
\* 21 to 31 are a chain of wide pull requests: each branch commit of one
\* names the next.
WidePrNumbers == {21, 23, 25, 27, 29, 31}
PrNumbers == {5, 7, 9, 11, 13, 15} \cup WidePrNumbers
RootPrNumbers == {5, 7}
LeafPrNumbers == PrNumbers \ (RootPrNumbers \cup WidePrNumbers)

\* A commit whose message names the leaf pull request p.
LeafRef(p) ==
    Commit(CHOOSE s \in {"r9", "r11", "r13", "r15"} :
               s = (CASE p = 9 -> "r9" [] p = 11 -> "r11" [] p = 13 -> "r13"
                      [] OTHER -> "r15"),
           Message(<<p>>, {}), <<"base">>)

\* What getPullRequestData resolves with.
PullRequestData(prCommits, mergeCommit) ==
    [outcome |-> "ok", prCommits |-> prCommits, mergeCommit |-> mergeCommit,
     timelineEvents |-> <<>>]

\* A fetch that rejects, with the status of the host's answer (not found,
\* unauthorized, rate limited), and one that does not settle before the
\* deadline.
FetchError == [outcome |-> "error", status |-> 404]
Unauthorized == [outcome |-> "error", status |-> 401]
RateLimited == [outcome |-> "error", status |-> 403]
FetchHangs == [outcome |-> "hang"]
Unasked == [outcome |-> "unasked"]

DistinctSeqs(S, maxLen) ==
    UNION {{s \in [1..n -> S] : \A i, j \in 1..n : i # j => s[i] # s[j]} :
              n \in 1..maxLen}

RichResponses ==
    {PullRequestData(prCommits, mergeCommit) :
        prCommits \in DistinctSeqs(RichCommits, MaxBranchCommits),
        mergeCommit \in RichCommits \cup {NoCommit}}

\* A pull request whose branch names three further pull requests and whose
\* squash commit names a fourth.
FanOut == PullRequestData(<<LeafRef(9), LeafRef(11), LeafRef(13)>>, commitC)

\* A branch of more commits than the queue may hold, every one of them
\* naming the pull request after p, the last wide one naming the first.
WideLen == maxQueueLength + 2

WideCommit(p, k) ==
    Commit("w" \o ToString(p) \o "-" \o ToString(k),
           Message(<<IF p + 2 \in WidePrNumbers THEN p + 2 ELSE 21>>, {}),
           <<"base">>)

Wide(p) == PullRequestData([k \in 1..WideLen |-> WideCommit(p, k)], NoCommit)

ResponsesOf(p) ==
    {FetchError, Unauthorized, RateLimited, FetchHangs} \cup
        (IF p \in WidePrNumbers THEN {Wide(p)}
         ELSE IF p \in RootPrNumbers
            THEN RichResponses \cup (IF p = 5 THEN {FanOut} ELSE {})
            ELSE {PullRequestData(<<commitA>>, NoCommit)})

-----------------------------------------------------------------------------
(* analyzeCommitLineage: one call *)

\* The call up to its loop: the queue holds the initial pull request, and
\* the breaker is new.
AnalyzeInit ==
    /\ gateway = [p \in PrNumbers |-> Unasked]
    /\ apc = "loop"
    /\ \E initialPullRequestNumber \in RootPrNumbers \cup {21} :
          prQueue = <<initialPullRequestNumber>>
    /\ processedPRs = {}
    /\ prsAnalyzed = <<>>
    /\ iterations = 0
    /\ nodes = <<>>
    /\ pullRequestNumber = 0
    /\ deadline = 0
    /\ fetchLog = <<>>
    /\ firstCall = <<>>

\* The loop condition fails: the summary is built and the call returns.
Finish ==
    /\ apc = "loop"
    /\ ~(Len(prQueue) > 0 /\ iterations < maxIterations)
    /\ apc' = "returned"
    /\ UNCHANGED <<gateway, prQueue, processedPRs, prsAnalyzed, iterations, nodes,
                   pullRequestNumber, deadline, fetchLog>>
    /\ UNCHANGED <<cbVars, detVars, deepVars, firstCall>>

\* An iteration that dequeues a pull request already processed: continue.
SkipProcessed ==
    /\ apc = "loop"
    /\ Len(prQueue) > 0 /\ iterations < maxIterations
    /\ Head(prQueue) \in processedPRs
    /\ iterations' = iterations + 1
    /\ prQueue' = Tail(prQueue)
    /\ pullRequestNumber' = Head(prQueue)
    /\ UNCHANGED <<gateway, apc, processedPRs, prsAnalyzed, nodes, deadline, fetchLog>>
    /\ UNCHANGED <<cbVars, detVars, deepVars, firstCall>>

RejectedByBreaker_NotVisited ==
    /\ apc = "loop"
    /\ Len(prQueue) > 0 /\ iterations < maxIterations
    /\ Head(prQueue) \notin processedPRs
    /\ isOpen
    /\ iterations' = iterations + 1
    /\ prQueue' = Tail(prQueue)
    /\ pullRequestNumber' = Head(prQueue)
    /\ UNCHANGED <<gateway, apc, processedPRs, prsAnalyzed, nodes, deadline, fetchLog>>
    /\ UNCHANGED <<cbVars, detVars, deepVars, firstCall>>

\* An iteration whose circuitBreaker.execute throws at once: the catch logs
\* the failure and the loop goes on.
RejectedByBreaker ==
    /\ apc = "loop"
    /\ Len(prQueue) > 0 /\ iterations < maxIterations
    /\ Head(prQueue) \notin processedPRs
    /\ isOpen
    /\ iterations' = iterations + 1
    /\ prQueue' = Tail(prQueue)
    /\ pullRequestNumber' = Head(prQueue)
    /\ processedPRs' = processedPRs \cup {Head(prQueue)}
    /\ prsAnalyzed' = Append(prsAnalyzed, Head(prQueue))
    /\ UNCHANGED <<gateway, apc, nodes, deadline, fetchLog>>
    /\ UNCHANGED <<cbVars, detVars, deepVars, firstCall>>

\* An iteration up to its await: getPullRequestData is called and the timer
\* of withTimeout is armed. The gateway's answer for a pull request is fixed
\* the first time it is asked for it.
StartFetch ==
    /\ apc = "loop"
    /\ Len(prQueue) > 0 /\ iterations < maxIterations
    /\ Head(prQueue) \notin processedPRs
    /\ ~isOpen
    /\ iterations' = iterations + 1
    /\ prQueue' = Tail(prQueue)
    /\ pullRequestNumber' = Head(prQueue)
    /\ processedPRs' = processedPRs \cup {Head(prQueue)}
    /\ prsAnalyzed' = Append(prsAnalyzed, Head(prQueue))
    /\ fetchLog' = Append(fetchLog, Head(prQueue))
    /\ IF gateway[Head(prQueue)] = Unasked
          THEN \E response \in ResponsesOf(Head(prQueue)) :
                  gateway' = [gateway EXCEPT ![Head(prQueue)] = response]
          ELSE UNCHANGED gateway
    /\ deadline' = withTimeout_deadline
    /\ apc' = "awaiting"
    /\ UNCHANGED nodes
    /\ UNCHANGED <<cbVars, detVars, deepVars, firstCall>>

\* The fetch resolves: onSuccess(), then the rest of the iteration.
FetchSucceeds ==
    /\ apc = "awaiting"
    /\ gateway[pullRequestNumber].outcome = "ok"
    /\ now < deadline
    /\ onSuccess
    /\ failedSinceOk' = 0
    /\ LET prData == gateway[pullRequestNumber]
           branch == processBranchCommits(prData.prCommits,
                         HeadRef(pullRequestNumber), processedPRs,
                         [nodes |-> nodes, prQueue |-> prQueue], 1)
           merge == processMergeCommit(prData, pullRequestNumber, processedPRs, branch)
       IN  /\ nodes' = merge.nodes
           /\ prQueue' = merge.prQueue
    /\ apc' = "loop"
    /\ UNCHANGED <<gateway, processedPRs, prsAnalyzed, iterations, pullRequestNumber,
                   deadline, fetchLog>>
    /\ UNCHANGED <<now, lastFailedAt, calls, abandoned>>
    /\ UNCHANGED <<detVars, deepVars, firstCall>>

FetchFails_DropsQueue ==
    /\ apc = "awaiting"
    /\ gateway[pullRequestNumber].outcome = "error"
    /\ now < deadline
    /\ onFailure
    /\ failedSinceOk' = failedSinceOk + 1
    /\ lastFailedAt' = now
    /\ apc' = "loop"
    /\ prQueue' = <<>>
    /\ UNCHANGED <<gateway, processedPRs, prsAnalyzed, iterations, nodes,
                   pullRequestNumber, deadline, fetchLog>>
    /\ UNCHANGED <<now, calls, abandoned>>
    /\ UNCHANGED <<detVars, deepVars, firstCall>>

\* The fetch rejects: onFailure(), the catch logs it and the loop goes on.
FetchFails ==
    /\ apc = "awaiting"
    /\ gateway[pullRequestNumber].outcome = "error"
    /\ now < deadline
    /\ onFailure
    /\ failedSinceOk' = failedSinceOk + 1
    /\ lastFailedAt' = now
    /\ apc' = "loop"
    /\ UNCHANGED <<gateway, prQueue, processedPRs, prsAnalyzed, iterations, nodes,
                   pullRequestNumber, deadline, fetchLog>>
    /\ UNCHANGED <<now, calls, abandoned>>
    /\ UNCHANGED <<detVars, deepVars, firstCall>>

\* The timer of withTimeout fires first: as a rejected fetch.
FetchTimesOut ==
    /\ apc = "awaiting"
    /\ now >= deadline
    /\ onFailure
    /\ failedSinceOk' = failedSinceOk + 1
    /\ lastFailedAt' = now
    /\ apc' = "loop"
    /\ UNCHANGED <<gateway, prQueue, processedPRs, prsAnalyzed, iterations, nodes,
                   pullRequestNumber, deadline, fetchLog>>
    /\ UNCHANGED <<now, calls, abandoned>>
    /\ UNCHANGED <<detVars, deepVars, firstCall>>

\* Time passes while a fetch that does not settle is awaited.
Wait ==
    /\ apc = "awaiting"
    /\ gateway[pullRequestNumber].outcome = "hang"
    /\ now < deadline
    /\ now' = now + TickMs
    /\ UNCHANGED <<failures, lastFailureTime, calls, abandoned, failedSinceOk,
                   lastFailedAt>>
    /\ UNCHANGED <<anVars, detVars, deepVars, firstCall>>

InitAnalyze ==
    /\ AnalyzeInit
    /\ BreakerIdle
    /\ DetectorIdle
    /\ DeepIdle

NextAnalyze ==
    \/ Finish
    \/ SkipProcessed
    \/ RejectedByBreaker
    \/ StartFetch
    \/ FetchSucceeds
    \/ FetchFails
    \/ FetchTimesOut
    \/ Wait

SpecAnalyze == InitAnalyze /\ [][NextAnalyze]_vars

\* The classification on its own: an analysis of pull request 5 alone, whose
\* fetch resolves with any merge commit (none, one or two parents, any
\* keywords), any number of branch commits and any timeline.
ClassifyWords == {"squash", "squash!", "conventional", "amend"}
ClassifyTimelines ==
    {<<>>, <<"head_ref_force_pushed">>, <<"base_ref_changed">>}
MaxParents == 2

ClassifyMergeCommits ==
    {Commit("m", Message(refs, words), [k \in 1..n |-> "base"]) :
        refs \in {<<>>, <<5>>}, words \in SUBSET ClassifyWords, n \in 0..MaxParents}

ClassifyInputs ==
    {[PullRequestData(prCommits, mergeCommit) EXCEPT !.timelineEvents = events] :
        prCommits \in {<<>>, <<commitA>>, <<commitA, commitD>>},
        mergeCommit \in ClassifyMergeCommits,
        events \in ClassifyTimelines}

InitClassify ==
    /\ \E prData \in ClassifyInputs :
          gateway = [p \in PrNumbers |-> IF p = 5 THEN prData ELSE Unasked]
    /\ apc = "loop"
    /\ prQueue = <<5>>
    /\ processedPRs = {}
    /\ prsAnalyzed = <<>>
    /\ iterations = 0
    /\ nodes = <<>>
    /\ pullRequestNumber = 0
    /\ deadline = 0
    /\ fetchLog = <<>>
    /\ firstCall = <<>>
    /\ BreakerIdle
    /\ DetectorIdle
    /\ DeepIdle

NextClassify ==
    \/ StartFetch
    \/ FetchSucceeds
    \/ Finish

SpecClassify == InitClassify /\ [][NextClassify]_vars

-----------------------------------------------------------------------------
(* AnalysisDepthManager: expansion of a detected squash *)

\* performDeepAnalysis: const maxDepth = 5
maxDepth == 5

\* message.match(/\(#(\d+)\)/): the first number named, null (0) without one.
extractPrNumberFromMessage(message) ==
    IF message.refs = <<>> THEN 0 ELSE message.refs[1]

\* The patterns of analyzeSquashIndicatorsInMessage that a message matches.
MatchedPatterns(message) ==
    (IF message.refs # <<>> THEN {"pr-number"} ELSE {})
        \cup (message.words \cap squashPatterns)

\* detector.detectSquash of a manager whose configuration enables the legacy
\* heuristics alone: their verdict is decided by the commits themselves.
detectSquash(mergeCommit, prCommits) ==
    LET results ==
            IF "legacy-heuristics" \in config.enabledMethods
               THEN <<detectViaLegacyHeuristics(Len(prCommits),
                          Len(mergeCommit.parents),
                          MatchedPatterns(mergeCommit.message))>>
               ELSE <<>>
    IN  [methods |-> results]
            @@ crossValidateResults(results, config.confidenceThreshold)

\* What analyzeWithDepth returns.
Analysis(isSquash, confidence, expandedCommits, maxDepthReached) ==
    [isSquash |-> isSquash, confidence |-> confidence,
     expandedCommits |-> expandedCommits, maxDepthReached |-> maxDepthReached]

performShallowAnalysis_TipOnly(mergeCommit, prCommits, prNumber, squashResult) ==
    [k \in {1} |->
        [sha |-> prCommits[Len(prCommits)].sha,
         message |-> prCommits[Len(prCommits)].message,
         parents |-> prCommits[Len(prCommits)].parents,
         branch |-> HeadRef(prNumber),
         type |-> "Squashed Commit",
         metadata |-> [originallySquashed |-> TRUE,
                       squashParent |-> mergeCommit.sha,
                       analysisDepth |-> "shallow",
                       detectionMethods |-> squashResult.methods,
                       confidence |-> squashResult.confidence]]]

\* The nodes performShallowAnalysis emits: one per branch commit, in order.
performShallowAnalysis(mergeCommit, prCommits, prNumber, squashResult) ==
    [k \in DOMAIN prCommits |->
        [sha |-> prCommits[k].sha, message |-> prCommits[k].message,
         parents |-> prCommits[k].parents, branch |-> HeadRef(prNumber),
         type |-> "Squashed Commit",
         metadata |-> [originallySquashed |-> TRUE,
                       squashParent |-> mergeCommit.sha,
                       analysisDepth |-> "shallow",
                       detectionMethods |-> squashResult.methods,
                       confidence |-> squashResult.confidence]]]

createCommitNode_AsSquashed(commit, prNumber, additionalMetadata) ==
    [sha |-> commit.sha, message |-> commit.message, parents |-> commit.parents,
     branch |-> HeadRef(prNumber), type |-> "Squashed Commit",
     metadata |-> [originallySquashed |-> TRUE] @@ additionalMetadata]

createCommitNode(commit, prNumber, additionalMetadata) ==
    [sha |-> commit.sha, message |-> commit.message, parents |-> commit.parents,
     branch |-> HeadRef(prNumber), type |-> "Expanded Commit",
     metadata |-> [originallySquashed |-> TRUE] @@ additionalMetadata]

\* fetchPullRequestData: a fetch that throws is logged and gives null.
fetchPullRequestData(response) ==
    IF response.outcome = "ok" THEN response
    ELSE [outcome |-> "null", mergeCommit |-> NoCommit]

\* The test before a nested pull request is fetched.
shouldExpand_IgnoreVisited(nestedPrNumber, processed) ==
    nestedPrNumber # 0
shouldExpand(nestedPrNumber, processed) ==
    nestedPrNumber # 0 /\ nestedPrNumber \notin processed

\* One call of analyzeWithDepth in progress.
Frame(prNumber, prData, currentDepth) ==
    [prNumber |-> prNumber, mergeCommit |-> prData.mergeCommit,
     prCommits |-> prData.prCommits, currentDepth |-> currentDepth,
     pc |-> "entered", squashResult |-> <<>>, i |-> 1,
     nestedPrNumber |-> 0, expandedCommits |-> <<>>, analysis |-> <<>>]

Top == stack[Len(stack)]

SetTop(frame) == [stack EXCEPT ![Len(stack)] = frame]

-----------------------------------------------------------------------------
(* The repository behind the gateway, as deep expansion meets it *)

\* A commit whose message names pull request p.
RefCommit(p) ==
    IF p = 5 THEN commitB ELSE IF p = 7 THEN commitC ELSE LeafRef(p)

\* The commit that a squash merge of pull request p leaves on the base branch.
SquashMerge(p) ==
    Commit((5 :> "m5" @@ 7 :> "m7" @@ 9 :> "m9" @@ 11 :> "m11" @@ 13 :> "m13"
              @@ 15 :> "m15")[p],
           Message(<<p>>, {}), <<"base">>)

\* The branches pull request p may have: one or two commits, naming no pull
\* request, pull request 5, or the pull request after p.
DeepBranches(p) ==
    {<<commitA>>, <<commitA, commitD>>, <<RefCommit(5), commitA>>}
        \cup (IF p + 2 \in PrNumbers
                 THEN {<<commitA, RefCommit(p + 2)>>,
                       <<RefCommit(5), RefCommit(p + 2)>>}
                 ELSE {})

\* Merged by squash, merged by a merge commit, or not merged.
DeepResponsesOf(p) ==
    {FetchError, FetchHangs} \cup
        {PullRequestData(prCommits, mergeCommit) :
            prCommits \in DeepBranches(p),
            mergeCommit \in {SquashMerge(p), commitD, NoCommit}}

\* The configuration of the manager.
DeepConfig ==
    [enabledMethods |-> {"legacy-heuristics"}, confidenceThreshold |-> 50,
     crossValidationRequired |-> FALSE]

-----------------------------------------------------------------------------
(* AnalysisDepthManager: one top-level call of analyzeWithDepth *)

\* The caller passes the merged pull request it has fetched; processedPRs
\* and currentDepth take their defaults, new Set() and 0.
DeepInit ==
    /\ config = DeepConfig
    /\ analysisDepth \in {"shallow", "deep"}
    /\ \E prNumber \in RootPrNumbers :
          \E prData \in {r \in DeepResponsesOf(prNumber) :
                            r.outcome = "ok" /\ r.mergeCommit # NoCommit} :
              /\ gateway = [p \in PrNumbers |->
                               IF p = prNumber THEN prData ELSE Unasked]
              /\ stack = <<Frame(prNumber, prData, 0)>>
              /\ expandLog = <<[prNumber |-> prNumber, currentDepth |-> 0]>>
    /\ processedPRs = {}
    /\ fetchLog = <<>>
    /\ returned = <<>>

\* What the steps of analyzeWithDepth leave alone.
notDeep ==
    <<cbVars, config, analysisDepth, pr, dpc, detectionResults, verdict,
      fetchFailed, timeline, firstCall, apc, prQueue, prsAnalyzed, iterations, nodes, pullRequestNumber, deadline>>

\* The call up to its first await: detector.detectSquash gives its verdict.
DetectSquash ==
    /\ stack # <<>> /\ Top.pc = "entered"
    /\ stack' = SetTop([Top EXCEPT
           !.pc = "detected",
           !.squashResult = detectSquash(Top.mergeCommit, Top.prCommits)])
    /\ UNCHANGED <<gateway, processedPRs, fetchLog, expandLog, returned>>
    /\ UNCHANGED notDeep

\* No squash: the call returns no expanded commit.
ReturnNotSquash ==
    /\ stack # <<>> /\ Top.pc = "detected"
    /\ LET squashResult == Top.squashResult
       IN  /\ ~squashResult.isSquash
           /\ stack' = SetTop([Top EXCEPT
                  !.pc = "return",
                  !.analysis = Analysis(FALSE, squashResult.confidence, <<>>, FALSE)])
    /\ UNCHANGED <<gateway, processedPRs, fetchLog, expandLog, returned>>
    /\ UNCHANGED notDeep

\* A squash under the shallow policy.
ExpandShallow ==
    /\ stack # <<>> /\ Top.pc = "detected"
    /\ LET squashResult == Top.squashResult
       IN  /\ squashResult.isSquash
           /\ analysisDepth = "shallow"
           /\ stack' = SetTop([Top EXCEPT
                  !.pc = "return",
                  !.analysis = Analysis(TRUE, squashResult.confidence,
                      performShallowAnalysis(Top.mergeCommit, Top.prCommits,
                                             Top.prNumber, squashResult),
                      FALSE)])
    /\ UNCHANGED <<gateway, processedPRs, fetchLog, expandLog, returned>>
    /\ UNCHANGED notDeep

\* A squash under the deep policy at the depth cap: shallow emission, with
\* maxDepthReached set.
ExpandAtMaxDepth_NoFlag ==
    /\ stack # <<>> /\ Top.pc = "detected"
    /\ Top.squashResult.isSquash
    /\ analysisDepth # "shallow"
    /\ Top.currentDepth >= maxDepth
    /\ stack' = SetTop([Top EXCEPT
           !.pc = "return",
           !.analysis = Analysis(TRUE, Top.squashResult.confidence,
               performShallowAnalysis(Top.mergeCommit, Top.prCommits,
                                      Top.prNumber, Top.squashResult),
               FALSE)])
    /\ UNCHANGED <<gateway, processedPRs, fetchLog, expandLog, returned>>
    /\ UNCHANGED notDeep
ExpandAtMaxDepth ==
    /\ stack # <<>> /\ Top.pc = "detected"
    /\ LET squashResult == Top.squashResult
       IN  /\ squashResult.isSquash
           /\ analysisDepth # "shallow"
           /\ Top.currentDepth >= maxDepth
           /\ stack' = SetTop([Top EXCEPT
                  !.pc = "return",
                  !.analysis = Analysis(TRUE, squashResult.confidence,
                      performShallowAnalysis(Top.mergeCommit, Top.prCommits,
                                             Top.prNumber, squashResult),
                      TRUE)])
    /\ UNCHANGED <<gateway, processedPRs, fetchLog, expandLog, returned>>
    /\ UNCHANGED notDeep

\* A squash under the deep policy below the cap: the loop over the branch
\* commits begins.
StartDeepAnalysis ==
    /\ stack # <<>> /\ Top.pc = "detected"
    /\ LET squashResult == Top.squashResult
       IN  /\ squashResult.isSquash
           /\ analysisDepth # "shallow"
           /\ Top.currentDepth < maxDepth
           /\ stack' = SetTop([Top EXCEPT !.pc = "loop"])
    /\ UNCHANGED <<gateway, processedPRs, fetchLog, expandLog, returned>>
    /\ UNCHANGED notDeep

\* A branch commit that names no pull request, or one already in
\* processedPRs: it is emitted as it is.
AddRegularCommit ==
    /\ stack # <<>> /\ Top.pc = "loop" /\ Top.i <= Len(Top.prCommits)
    /\ LET commit == Top.prCommits[Top.i]
           nestedPrNumber == extractPrNumberFromMessage(commit.message)
       IN  /\ ~shouldExpand(nestedPrNumber, processedPRs)
           /\ stack' = SetTop([Top EXCEPT
                  !.i = @ + 1,
                  !.expandedCommits = Append(@,
                      createCommitNode(commit, Top.prNumber,
                          [analysisDepth |-> "deep",
                           currentDepth |-> Top.currentDepth]))])
    /\ UNCHANGED <<gateway, processedPRs, fetchLog, expandLog, returned>>
    /\ UNCHANGED notDeep

\* A branch commit that names a pull request not in processedPRs: the number
\* is added and the pull request is fetched. The gateway's answer for a pull
\* request is fixed the first time it is asked for it.
FetchNestedPr ==
    /\ stack # <<>> /\ Top.pc = "loop" /\ Top.i <= Len(Top.prCommits)
    /\ LET commit == Top.prCommits[Top.i]
           nestedPrNumber == extractPrNumberFromMessage(commit.message)
       IN  /\ shouldExpand(nestedPrNumber, processedPRs)
           /\ processedPRs' = processedPRs \cup {nestedPrNumber}
           /\ fetchLog' = Append(fetchLog, nestedPrNumber)
           /\ IF gateway[nestedPrNumber] = Unasked
                 THEN \E response \in DeepResponsesOf(nestedPrNumber) :
                         gateway' = [gateway EXCEPT ![nestedPrNumber] = response]
                 ELSE UNCHANGED gateway
           /\ stack' = SetTop([Top EXCEPT !.pc = "fetched",
                                          !.nestedPrNumber = nestedPrNumber])
    /\ UNCHANGED <<expandLog, returned>>
    /\ UNCHANGED notDeep

NestedFetchFailed_Drop ==
    /\ stack # <<>> /\ Top.pc = "fetched"
    /\ gateway[Top.nestedPrNumber].outcome # "hang"
    /\ LET nestedPrData == fetchPullRequestData(gateway[Top.nestedPrNumber])
       IN  /\ ~(nestedPrData.outcome # "null" /\ nestedPrData.mergeCommit # NoCommit)
           /\ stack' = SetTop([Top EXCEPT !.pc = "loop", !.i = @ + 1])
    /\ UNCHANGED <<gateway, processedPRs, fetchLog, expandLog, returned>>
    /\ UNCHANGED notDeep

\* The fetch gave null, or a pull request without a merge commit: the commit
\* is emitted as it is, marked fetchFailed.
NestedFetchFailed ==
    /\ stack # <<>> /\ Top.pc = "fetched"
    /\ gateway[Top.nestedPrNumber].outcome # "hang"
    /\ LET commit == Top.prCommits[Top.i]
           nestedPrData == fetchPullRequestData(gateway[Top.nestedPrNumber])
       IN  /\ ~(nestedPrData.outcome # "null" /\ nestedPrData.mergeCommit # NoCommit)
           /\ stack' = SetTop([Top EXCEPT
                  !.pc = "loop",
                  !.i = @ + 1,
                  !.expandedCommits = Append(@,
                      createCommitNode(commit, Top.prNumber,
                          [nestedPrNumber |-> Top.nestedPrNumber,
                           analysisDepth |-> "deep",
                           fetchFailed |-> TRUE]))])
    /\ UNCHANGED <<gateway, processedPRs, fetchLog, expandLog, returned>>
    /\ UNCHANGED notDeep

\* The fetch gave a merged pull request: analyzeWithDepth is called on it,
\* one level deeper, with the same processedPRs.
AnalyzeNestedPr ==
    /\ stack # <<>> /\ Top.pc = "fetched"
    /\ gateway[Top.nestedPrNumber].outcome # "hang"
    /\ LET nestedPrData == fetchPullRequestData(gateway[Top.nestedPrNumber])
       IN  /\ nestedPrData.outcome # "null" /\ nestedPrData.mergeCommit # NoCommit
           /\ stack' = Append(SetTop([Top EXCEPT !.pc = "nested"]),
                              Frame(Top.nestedPrNumber, nestedPrData,
                                    Top.currentDepth + 1))
           /\ expandLog' = Append(expandLog,
                  [prNumber |-> Top.nestedPrNumber,
                   currentDepth |-> Top.currentDepth + 1])
    /\ UNCHANGED <<gateway, processedPRs, fetchLog, returned>>
    /\ UNCHANGED notDeep

\* The loop over the branch commits is over.
CompleteDeepAnalysis ==
    /\ stack # <<>> /\ Top.pc = "loop" /\ Top.i > Len(Top.prCommits)
    /\ stack' = SetTop([Top EXCEPT
           !.pc = "return",
           !.analysis = Analysis(TRUE, Top.squashResult.confidence,
                                 Top.expandedCommits, FALSE)])
    /\ UNCHANGED <<gateway, processedPRs, fetchLog, expandLog, returned>>
    /\ UNCHANGED notDeep

\* A nested call returns into the loop of its caller: the commits of an
\* expanded squash replace the commit, otherwise the commit is emitted.
ReturnToCaller ==
    /\ Len(stack) > 1 /\ Top.pc = "return"
    /\ LET nestedAnalysis == Top.analysis
           caller == stack[Len(stack) - 1]
           commit == caller.prCommits[caller.i]
           expandedCommits ==
               IF nestedAnalysis.isSquash /\ Len(nestedAnalysis.expandedCommits) > 0
                  THEN caller.expandedCommits \o nestedAnalysis.expandedCommits
                  ELSE Append(caller.expandedCommits,
                           createCommitNode(commit, caller.prNumber,
                               [nestedPrNumber |-> caller.nestedPrNumber,
                                analysisDepth |-> "deep",
                                currentDepth |-> caller.currentDepth + 1]))
       IN  stack' = [SubSeq(stack, 1, Len(stack) - 1) EXCEPT
                        ![Len(stack) - 1] =
                            [caller EXCEPT !.pc = "loop", !.i = @ + 1,
                                           !.expandedCommits = expandedCommits]]
    /\ UNCHANGED <<gateway, processedPRs, fetchLog, expandLog, returned>>
    /\ UNCHANGED notDeep

\* The top-level call returns.
ReturnFromRoot ==
    /\ Len(stack) = 1 /\ Top.pc = "return"
    /\ returned' = <<Top.analysis>>
    /\ stack' = <<>>
    /\ UNCHANGED <<gateway, processedPRs, fetchLog, expandLog>>
    /\ UNCHANGED notDeep

InitDeep ==
    /\ DeepInit
    /\ BreakerIdle
    /\ pr = [commitCount |-> 0, parentCount |-> 0, message |-> {}]
    /\ dpc = 0
    /\ detectionResults = <<>>
    /\ verdict = [isSquash |-> FALSE, confidence |-> [num |-> 0, den |-> 1]]
    /\ fetchFailed = FALSE
    /\ timeline = <<>>
    /\ apc = "idle"
    /\ prQueue = <<>>
    /\ prsAnalyzed = <<>>
    /\ iterations = 0
    /\ nodes = <<>>
    /\ pullRequestNumber = 0
    /\ deadline = 0
    /\ firstCall = <<>>

NextDeep ==
    \/ DetectSquash
    \/ ReturnNotSquash
    \/ ExpandShallow
    \/ ExpandAtMaxDepth
    \/ StartDeepAnalysis
    \/ AddRegularCommit
    \/ FetchNestedPr
    \/ NestedFetchFailed
    \/ AnalyzeNestedPr
    \/ CompleteDeepAnalysis
    \/ ReturnToCaller
    \/ ReturnFromRoot

SpecDeep == InitDeep /\ [][NextDeep]_vars

-----------------------------------------------------------------------------
(* Claims about analyzeCommitLineage, checked under SpecAnalyze *)

\* The pull requests whose fetch has resolved and whose data the loop has
\* worked through.
Worked ==
    {p \in PrNumbers :
        /\ \E i \in DOMAIN fetchLog : fetchLog[i] = p
        /\ gateway[p].outcome = "ok"
        /\ ~(apc = "awaiting" /\ pullRequestNumber = p)}

\* The shas of the commits, branch and merge, that these fetches returned.
FetchedShas ==
    UNION {{gateway[p].prCommits[i].sha : i \in DOMAIN gateway[p].prCommits}
              \cup (IF gateway[p].mergeCommit = NoCommit THEN {}
                    ELSE {gateway[p].mergeCommit.sha}) : p \in Worked}

Count(seq, x) == Cardinality({i \in DOMAIN seq : seq[i] = x})

\* C7: at every step of an analysis, and so in the node list it returns, no
\* two nodes carry the same sha, and every commit that a resolved fetch of
\* the call has returned, as a branch commit or as a merge commit, has
\* exactly one node.
C7_OneNodePerSha ==
    /\ \A i, j \in DOMAIN nodes : i # j => nodes[i].sha # nodes[j].sha
    /\ \A sha \in FetchedShas :
           Cardinality({i \in DOMAIN nodes : nodes[i].sha = sha}) = 1

C7_Witness ==
    /\ apc = "returned"
    /\ \E p, q \in Worked :
          /\ p # q
          /\ gateway[q].mergeCommit # NoCommit
          /\ \E i \in DOMAIN gateway[p].prCommits :
                 gateway[p].prCommits[i].sha = gateway[q].mergeCommit.sha
          /\ \E i \in DOMAIN gateway[q].prCommits :
                 MapHas(gateway[p].prCommits, gateway[q].prCommits[i].sha)

\* C8: every node of type Squash has among its parents the sha of the last
\* branch commit of the pull request it squashed.
C8_SquashParentsIncludeTip ==
    \A i \in DOMAIN nodes :
        (nodes[i].type = "Squash" /\ nodes[i].originalCommits # <<>>) =>
            \E k \in DOMAIN nodes[i].parents :
                nodes[i].parents[k] =
                    nodes[i].originalCommits[Len(nodes[i].originalCommits)]

\* C9: in one analysis the gateway is asked for each pull request at most
\* once and each pull request is listed as analysed at most once, whatever
\* the commit messages name; a pull request that has been dequeued for
\* processing is never put on the queue again, not even by its own merge
\* commit's message.
C9_EachPrFetchedOnce ==
    [][/\ \A p \in PrNumbers :
             Count(fetchLog', p) <= 1 /\ Count(prsAnalyzed', p) <= 1
       /\ \A p \in processedPRs : Count(prQueue', p) <= Count(prQueue, p)]_vars

C9_Witness ==
    /\ apc = "returned"
    /\ fetchLog = <<5, 7>>
    /\ prsAnalyzed = <<5, 7>>
    /\ gateway[5].outcome = "ok" /\ gateway[7].outcome = "ok"
    /\ gateway[5].mergeCommit = commitB
    /\ \E i \in DOMAIN gateway[5].prCommits : gateway[5].prCommits[i] = commitC
    /\ \E i \in DOMAIN gateway[7].prCommits : gateway[7].prCommits[i] = commitB

\* The event loop runs a continuation that is ready, a fetch settles or its
\* timer fires, and time passes while a fetch is awaited.
\* The summary of lines 460-472: the pull requests analysed, the number of
\* nodes, and the number of nodes of each operation type.
Summary ==
    [prsAnalyzed |-> prsAnalyzed,
     size |-> Len(nodes),
     operationCounts |->
         [type \in {nodes[i].type : i \in DOMAIN nodes} |->
             Cardinality({i \in DOMAIN nodes : nodes[i].type = type})]]

\* What analyzeCommitLineage returns.
Output == [summary |-> Summary, nodes |-> nodes]

\* The caller calls analyzeCommitLineage once more with the same arguments:
\* the node map, the queue, the visited set and the breaker are constructed
\* anew; the gateway answers as it did.
CallAgain_KeepsVisited ==
    /\ apc = "returned"
    /\ firstCall = <<>>
    /\ firstCall' = <<Output>>
    /\ apc' = "loop"
    /\ prQueue' = <<prsAnalyzed[1]>>
    /\ prsAnalyzed' = <<>>
    /\ iterations' = 0
    /\ nodes' = <<>>
    /\ pullRequestNumber' = 0
    /\ deadline' = 0
    /\ fetchLog' = <<>>
    /\ failures' = 0
    /\ lastFailureTime' = 0
    /\ failedSinceOk' = 0
    /\ lastFailedAt' = 0
    /\ UNCHANGED <<gateway, processedPRs, now, calls, abandoned>>
    /\ UNCHANGED <<detVars, deepVars>>
CallAgain ==
    /\ apc = "returned"
    /\ firstCall = <<>>
    /\ firstCall' = <<Output>>
    /\ apc' = "loop"
    /\ prQueue' = <<prsAnalyzed[1]>>
    /\ processedPRs' = {}
    /\ prsAnalyzed' = <<>>
    /\ iterations' = 0
    /\ nodes' = <<>>
    /\ pullRequestNumber' = 0
    /\ deadline' = 0
    /\ fetchLog' = <<>>
    /\ failures' = 0
    /\ lastFailureTime' = 0
    /\ failedSinceOk' = 0
    /\ lastFailedAt' = 0
    /\ UNCHANGED <<gateway, now, calls, abandoned>>
    /\ UNCHANGED <<detVars, deepVars>>

NextAnalyzeTwice ==
    \/ NextAnalyze
    \/ CallAgain

SpecAnalyzeTwice == InitAnalyze /\ [][NextAnalyzeTwice]_vars

SpecAnalyzeFair == SpecAnalyze /\ WF_vars(NextAnalyze)

\* The fetch of pull request p was made and has failed: it rejected, the
\* timer of withTimeout fired first, or the breaker refused the call.
Failed(p) ==
    /\ \E i \in DOMAIN prsAnalyzed : prsAnalyzed[i] = p
    /\ ~(apc = "awaiting" /\ pullRequestNumber = p)
    /\ \/ gateway[p].outcome \in {"error", "hang"}
       \/ \A i \in DOMAIN fetchLog : fetchLog[i] # p

\* C19: when the fetch of the initial pull request fails (not found, timed
\* out, or refused by the open breaker) the call does not return a summary
\* and a node list: the failure reaches the caller.
C19_RootFailurePropagates ==
    ( /\ prsAnalyzed # <<>>
      /\ Failed(prsAnalyzed[1])
      /\ gateway[prsAnalyzed[1]] \notin {Unauthorized, RateLimited} )
    => apc # "returned"

\* The fetch of some pull request has rejected as unauthorized or rate
\* limited.
FatalFailure ==
    \E p \in PrNumbers :
        Failed(p) /\ gateway[p] \in {Unauthorized, RateLimited}

\* C20: once a fetch, of the initial or of a nested pull request, has
\* rejected as unauthorized or rate limited, the call dequeues and fetches
\* no further pull request and does not return a result.
C20_FatalFailureAborts ==
    [][FatalFailure =>
          /\ iterations' = iterations
          /\ fetchLog' = fetchLog
          /\ apc' # "returned"]_vars

\* The fetch of a pull request other than the initial one is awaited and
\* will reject as not found.
NestedNotFoundPending ==
    /\ apc = "awaiting"
    /\ pullRequestNumber # prsAnalyzed[1]
    /\ gateway[pullRequestNumber] = FetchError

RECURSIVE SumOf(_, _)
\* The sum of the counts f[t] over the types t in S.
SumOf(f, S) ==
    IF S = {} THEN 0
    ELSE LET t == CHOOSE x \in S : TRUE IN f[t] + SumOf(f, S \ {t})

\* C26: on completion the summary lists each analysed pull request once, in
\* the order of processing and starting with the initial one; its total is
\* the number of distinct shas in the node list; the counts per operation
\* type sum to that total; and every pull request listed was fetched
\* successfully and its commits are in the node list.
C26_SummaryIsAccurate ==
    apc = "returned" =>
        /\ \A i, j \in DOMAIN Summary.prsAnalyzed :
               i # j => Summary.prsAnalyzed[i] # Summary.prsAnalyzed[j]
        /\ Summary.prsAnalyzed # <<>>
        /\ fetchLog[1] = Summary.prsAnalyzed[1]
        /\ Summary.size = Cardinality({nodes[i].sha : i \in DOMAIN nodes})
        /\ SumOf(Summary.operationCounts, DOMAIN Summary.operationCounts)
               = Summary.size
        /\ \A i \in DOMAIN Summary.prsAnalyzed :
               LET prData == gateway[Summary.prsAnalyzed[i]]
               IN  /\ prData.outcome = "ok"
                   /\ \A k \in DOMAIN prData.prCommits :
                          MapHas(nodes, prData.prCommits[k].sha)

\* C12: whatever the gateway answers, chains and fan-out of references
\* included, a top-level analyze call returns; its loop dequeues at most 50
\* entries, those skipped as already processed included, so at most 50
\* pull requests are fetched; and prQueue never holds more than 20 entries.
C12_AnalyzeTerminates ==
    /\ [](/\ iterations <= maxIterations
          /\ Len(fetchLog) <= maxIterations
          /\ Len(fetchLog) <= iterations
          /\ Len(prQueue) <= maxQueueLength)
    /\ <>(apc = "returned")

C12_Witness ==
    /\ apc = "returned"
    /\ iterations = maxIterations
    /\ Len(prQueue) > 0
    /\ \E k \in DOMAIN prsAnalyzed :
           gateway[prsAnalyzed[k]].outcome = "ok"
              /\ Len(gateway[prsAnalyzed[k]].prCommits) > maxQueueLength

-----------------------------------------------------------------------------
(* Claims about analyzeWithDepth, checked under SpecDeep *)

\* How often the top-level call has entered analyzeWithDepth for pull
\* request p, and how often p has been fetched, the fetch included that gave
\* the caller the pull request it passes to the top-level call.
Expansions(p) ==
    Cardinality({k \in DOMAIN expandLog : expandLog[k].prNumber = p})

Fetches(p) ==
    Count(fetchLog, p)
        + (IF expandLog # <<>> /\ expandLog[1].prNumber = p THEN 1 ELSE 0)

\* C10: in a deep expansion started by analyzeWithDepth on a pull request,
\* every pull-request number is fetched at most once and expanded at most
\* once in the top-level call, the pull request at the root included: when
\* the root 5 names 7 and 7 names 5, pull request 5 is neither fetched nor
\* expanded a second time.
C10_EachPrExpandedOnce ==
    \A p \in PrNumbers : Fetches(p) <= 1 /\ Expansions(p) <= 1

\* The calls in progress at the depth cap.
AtCap == {k \in DOMAIN stack : stack[k].currentDepth >= maxDepth}

\* C11: in a deep expansion of a chain of nested squashed pull requests
\* longer than the cap, analyzeWithDepth is never entered with a depth above
\* 5; the call at depth 5 fetches no pull request, and for a squash it
\* returns the shallow emission of its branch commits with maxDepthReached
\* set; the pull requests fetched in the whole call never number more than
\* the iteration cap of 50.
C11_RecursionStopsAtCap ==
    analysisDepth = "deep" =>
        /\ \A k \in DOMAIN expandLog : expandLog[k].currentDepth <= maxDepth
        /\ \A k \in DOMAIN stack : stack[k].currentDepth <= maxDepth
        /\ \A k \in AtCap :
              /\ stack[k].pc \in {"entered", "detected", "return"}
              /\ stack[k].nestedPrNumber = 0
              /\ (stack[k].pc = "return" /\ stack[k].squashResult.isSquash) =>
                    /\ stack[k].analysis.isSquash
                    /\ stack[k].analysis.maxDepthReached
                    /\ stack[k].analysis.expandedCommits =
                          performShallowAnalysis(stack[k].mergeCommit,
                              stack[k].prCommits, stack[k].prNumber,
                              stack[k].squashResult)
        /\ Len(fetchLog) <= maxIterations

C11_Witness ==
    /\ analysisDepth = "deep"
    /\ fetchLog = <<7, 9, 11, 13, 15>>
    /\ Len(stack) = maxDepth + 1
    /\ Top.currentDepth = maxDepth
    /\ Top.pc = "return"
    /\ Top.analysis.maxDepthReached
    /\ Len(Top.analysis.expandedCommits) = 2
    /\ \A k \in DOMAIN Top.analysis.expandedCommits :
           Top.analysis.expandedCommits[k].type = "Squashed Commit"

\* C22: every fetch issued during an analysis, the nested fetches of the
\* deep expansion included, goes through the circuit breaker and is raced
\* against the 30 s deadline: the step that issues it is taken with the
\* breaker closed and arms the timer of withTimeout.
C22_EveryFetchGuarded ==
    [][fetchLog' # fetchLog =>
          /\ ~isOpen
          /\ deadline' = now + operationTimeoutMs]_vars

\* The pull request that the top-level call was given, and its data.
RootPr == expandLog[1].prNumber

RootData == gateway[RootPr]

\* C16: under the shallow policy a detected squash of N branch commits
\* returns exactly N nodes, in the order of the branch, each of type
\* "Squashed Commit" with squashParent the sha of the merge commit and with
\* the detector's verdicts and confidence; no pull request is fetched and
\* processedPRs stays as it was, also when the messages name pull requests.
C16_ShallowEmission ==
    analysisDepth = "shallow" /\ expandLog # <<>> =>
        /\ fetchLog = <<>>
        /\ processedPRs = {}
        /\ Len(expandLog) = 1
        /\ (returned # <<>> /\ returned[1].isSquash) =>
               LET expandedCommits == returned[1].expandedCommits
                   squashResult == detectSquash(RootData.mergeCommit,
                                                RootData.prCommits)
               IN  /\ Len(expandedCommits) = Len(RootData.prCommits)
                   /\ \A k \in DOMAIN expandedCommits :
                          /\ expandedCommits[k].sha = RootData.prCommits[k].sha
                          /\ expandedCommits[k].type = "Squashed Commit"
                          /\ expandedCommits[k].metadata.squashParent
                                 = RootData.mergeCommit.sha
                          /\ expandedCommits[k].metadata.detectionMethods
                                 = squashResult.methods
                          /\ expandedCommits[k].metadata.detectionMethods # <<>>
                          /\ expandedCommits[k].metadata.confidence
                                 = squashResult.confidence

\* A shallow expansion of two commits, both naming a pull request, returned.
C16_Witness ==
    /\ analysisDepth = "shallow"
    /\ returned # <<>> /\ returned[1].isSquash
    /\ Len(returned[1].expandedCommits) = 2
    /\ \A k \in DOMAIN RootData.prCommits :
           extractPrNumberFromMessage(RootData.prCommits[k].message) # 0

\* No commit of the branch names a pull request.
NoReference(prCommits) ==
    \A k \in DOMAIN prCommits :
        extractPrNumberFromMessage(prCommits[k].message) = 0

\* A call of the deep policy, below the cap, on a squash whose branch names
\* no pull request, at its return.
DeepReturnWithoutReference ==
    /\ analysisDepth = "deep"
    /\ stack # <<>>
    /\ Top.pc = "return"
    /\ Top.analysis.isSquash
    /\ Top.currentDepth < maxDepth
    /\ NoReference(Top.prCommits)

\* C17: under the deep policy, below the depth cap, a detected squash of N
\* branch commits none of which names a pull request returns exactly N
\* nodes, in the order of the branch, each of type "Expanded Commit" with
\* the current depth in its metadata, and the call fetches nothing.
C17_DeepWithoutReference ==
    /\ [](DeepReturnWithoutReference =>
             LET expandedCommits == Top.analysis.expandedCommits
             IN  /\ Len(expandedCommits) = Len(Top.prCommits)
                 /\ \A k \in DOMAIN expandedCommits :
                        /\ expandedCommits[k].sha = Top.prCommits[k].sha
                        /\ expandedCommits[k].type = "Expanded Commit"
                        /\ expandedCommits[k].metadata.analysisDepth = "deep"
                        /\ expandedCommits[k].metadata.currentDepth
                               = Top.currentDepth)
    /\ [][(stack # <<>> /\ NoReference(Top.prCommits))
              => /\ fetchLog' = fetchLog
                 /\ processedPRs' = processedPRs
                 /\ Len(stack') <= Len(stack)]_vars

\* Such a call returns two nodes, one level below the root.
C17_Witness ==
    /\ DeepReturnWithoutReference
    /\ Top.currentDepth = 1
    /\ Len(Top.analysis.expandedCommits) = 2

\* The loop of the deep policy is at a branch commit whose pull request
\* cannot be expanded: it names none, it names one that is in processedPRs,
\* or the fetch of the one it names failed or gave no merge commit.
CannotExpand ==
    /\ stack # <<>>
    /\ Top.i <= Len(Top.prCommits)
    /\ LET nestedPrNumber ==
               extractPrNumberFromMessage(Top.prCommits[Top.i].message)
       IN  \/ /\ Top.pc = "loop"
              /\ nestedPrNumber = 0 \/ nestedPrNumber \in processedPRs
           \/ /\ Top.pc = "fetched"
              /\ \/ gateway[nestedPrNumber].outcome = "error"
                 \/ /\ gateway[nestedPrNumber].outcome = "ok"
                    /\ gateway[nestedPrNumber].mergeCommit = NoCommit

\* The node carries the depth of the call or the reason of the failure.
CarriesDepthOrReason(node, currentDepth) ==
    \/ /\ "currentDepth" \in DOMAIN node.metadata
       /\ node.metadata.currentDepth = currentDepth
    \/ /\ "fetchFailed" \in DOMAIN node.metadata
       /\ node.metadata.fetchFailed
    \/ "error" \in DOMAIN node.metadata

\* C18: under the deep policy a branch commit whose referenced pull request
\* cannot be expanded (none referenced, already visited, fetch failed, or no
\* merge commit) is not dropped: the step that handles it appends exactly
\* one node for it, of type "Expanded Commit", carrying the current depth or
\* the failure reason, and no later step of the call removes a node.
C18_CommitNeverDropped ==
    [][/\ CannotExpand =>
            /\ Len(stack') = Len(stack)
            /\ stack'[Len(stack)].i = Top.i + 1
            /\ Len(stack'[Len(stack)].expandedCommits)
                   = Len(Top.expandedCommits) + 1
            /\ LET node == stack'[Len(stack)].expandedCommits[
                               Len(Top.expandedCommits) + 1]
               IN  /\ node.sha = Top.prCommits[Top.i].sha
                   /\ node.type = "Expanded Commit"
                   /\ CarriesDepthOrReason(node, Top.currentDepth)
       /\ \A d \in DOMAIN stack \cap DOMAIN stack' :
              /\ Len(stack'[d].expandedCommits) >= Len(stack[d].expandedCommits)
              /\ SubSeq(stack'[d].expandedCommits, 1,
                        Len(stack[d].expandedCommits))
                     = stack[d].expandedCommits]_vars

\* A call returns a node for a commit whose fetch failed and a node for a
\* commit that names a pull request already in processedPRs.
C18_Witness ==
    /\ stack # <<>>
    /\ Top.pc = "return"
    /\ \E k \in DOMAIN Top.analysis.expandedCommits :
           LET node == Top.analysis.expandedCommits[k]
           IN  /\ "fetchFailed" \in DOMAIN node.metadata
               /\ node.type = "Expanded Commit"
    /\ \E k \in DOMAIN Top.analysis.expandedCommits :
           LET node == Top.analysis.expandedCommits[k]
           IN  /\ node.message.refs # <<>>
               /\ node.type = "Expanded Commit"
               /\ "nestedPrNumber" \notin DOMAIN node.metadata

-----------------------------------------------------------------------------
(* Claims about the squash detector, checked under SpecDetect *)

\* C1: crossValidateResults returns isSquash = true exactly when the sum of
\* confidence * weight over the squash verdicts is strictly greater than the
\* sum over the non-squash verdicts and the greater sum divided by the total
\* weight is at least confidenceThreshold; equal sums give isSquash = false;
\* no verdict at all gives isSquash = false and confidence 0.
C1_CombineRule ==
    dpc = Returned =>
        LET squash == weightedSquashScore(detectionResults)
            nonSquash == weightedNonSquashScore(detectionResults)
            greater == IF squash > nonSquash THEN squash ELSE nonSquash
            atLeastThreshold ==
                greater >= config.confidenceThreshold * totalWeight(detectionResults)
        IN  /\ verdict.isSquash <=> (squash > nonSquash /\ atLeastThreshold)
            /\ squash = nonSquash => ~verdict.isSquash
            /\ detectionResults = <<>> =>
                   ~verdict.isSquash /\ verdict.confidence.num = 0


\* C2: whichever algorithms are enabled and whatever verdict each of them
\* produces, the confidence that crossValidateResults returns is at least 0
\* and at most 1.
C2_ConfidenceInRange ==
    dpc = Returned =>
        /\ verdict.confidence.den > 0
        /\ 0 <= verdict.confidence.num
        /\ verdict.confidence.num <= 100 * verdict.confidence.den
        /\ detectionResults # <<>> =>
               /\ compareConfidence(detectionResults, 0) >= 0
               /\ compareConfidence(detectionResults, 100) <= 0

C2_Witness ==
    /\ dpc = Returned
    /\ Len(detectionResults) = Len(Methods)
    /\ \E i \in DOMAIN detectionResults : detectionResults[i].confidence = 0
    /\ \E i \in DOMAIN detectionResults : detectionResults[i].confidence = 95
    /\ verdict.confidence.num > 0

\* The verdicts that the named algorithm pushed (none when it is not enabled).
Votes(method) ==
    {detectionResults[k] : k \in {j \in DOMAIN detectionResults :
                                      detectionResults[j].method = method}}

VotesSquash(method) ==
    Votes(method) # {} /\ \A r \in Votes(method) : r.isSquash

\* A merge commit with one parent and the message "feat: x (#42)", and three
\* branch commits, analysed under the default preset.
DetectionScenario ==
    /\ dpc = Returned
    /\ ConstructedWith(getDefaultConfig("shallow"))
    /\ pr = [commitCount |-> 3, parentCount |-> 1,
             message |-> {"pr-number", "conventional"}]

\* C13: in the detection scenario (one parent, "feat: x (#42)", three branch
\* commits within ten seconds, committer different from author, author among
\* the branch authors), where Host-Merge-Strategy, Timestamp-Pattern and
\* Author/Committer-Discrepancy all vote squash, the aggregate verdict under
\* the default preset is isSquash = true with confidence at least 0.6.
C13_ScenarioIsSquash ==
    ( /\ DetectionScenario
      /\ VotesSquash("github-api-strategy")
      /\ VotesSquash("timestamp-pattern")
      /\ VotesSquash("author-committer-discrepancy") )
    => /\ verdict.isSquash
       /\ compareConfidence(detectionResults, 60) >= 0

VotesNonSquash(method) == \A r \in Votes(method) : ~r.isSquash

\* C14: for a merge commit with two parents, under each preset, the
\* algorithms that read the parent count (Commit-Tree-Structure and
\* Legacy-Heuristic) vote non-squash and the aggregate verdict is
\* isSquash = false, whatever the other algorithms return.
C14_TwoParentsNeverSquash ==
    ( /\ dpc = Returned
      /\ pr.parentCount = 2
      /\ \E preset \in Presets : ConstructedWith(preset) )
    => /\ VotesNonSquash("commit-tree-structure")
       /\ VotesNonSquash("legacy-heuristics")
       /\ ~verdict.isSquash

\* C15: with confidenceThreshold = 0.99 the aggregate verdict is
\* isSquash = false for every input and every enabled set; a higher threshold
\* never turns isSquash from false to true, and the reported confidence is
\* the same under every threshold.
C15_ThresholdGates ==
    dpc = Returned =>
        /\ config.confidenceThreshold = 99 => ~verdict.isSquash
        /\ \A t \in {u \in Thresholds : u > config.confidenceThreshold} :
               LET raised == crossValidateResults(detectionResults, t)
               IN  /\ raised.confidence = verdict.confidence
                   /\ raised.isSquash => verdict.isSquash

\* A verdict that is squash under the threshold 0.5 and is not under 0.99.
C15_Witness ==
    /\ dpc = Returned
    /\ config.confidenceThreshold = 99
    /\ ~verdict.isSquash
    /\ crossValidateResults(detectionResults, 50).isSquash
    /\ compareConfidence(detectionResults, 95) = 0

IsEnabled(method) == method \in config.enabledMethods

\* C23: detectSquash returns one verdict per enabled algorithm, in the fixed
\* order of the algorithms, and an algorithm in which a commit fetch failed
\* gives a non-squash verdict of low confidence: a failed fetch never
\* produces a squash vote.
C23_FaultsNeverVoteSquash ==
    /\ dpc = Returned =>
           [k \in DOMAIN detectionResults |-> detectionResults[k].method]
               = SelectSeq(Methods, IsEnabled)
    /\ (dpc \in 2..AtValidation /\ fetchFailed) =>
           LET result == detectionResults[Len(detectionResults)]
           IN  ~result.isSquash /\ result.confidence <= 30

\* The verdicts that vote squash.
SquashVotes ==
    {k \in DOMAIN detectionResults : detectionResults[k].isSquash}

\* C27: when the configuration makes the agreement of several algorithms
\* mandatory (crossValidationRequired = true), the aggregate verdict is
\* isSquash = true only if at least two algorithms vote squash.
C27_AgreementRequired ==
    (dpc = Returned /\ config.crossValidationRequired /\ verdict.isSquash)
        => Cardinality(SquashVotes) >= 2

\* C28: the presets are default = 5 algorithms, threshold 0.6,
\* cross-validation required; performance = 3 algorithms, threshold 0.5,
\* cross-validation optional; comprehensive = all 7 algorithms, threshold
\* 0.7, cross-validation required; each keeps the depth policy it is given;
\* the algorithms of performance are among those of default, which are
\* among those of comprehensive; and a detector constructed with a preset
\* returns that many verdicts.
C28_Presets ==
    /\ \A depth \in AnalysisDepths :
           LET default == getDefaultConfig(depth)
               performance == getPerformanceConfig(depth)
               comprehensive == getComprehensiveConfig(depth)
           IN  /\ default.analysisDepth = depth
               /\ performance.analysisDepth = depth
               /\ comprehensive.analysisDepth = depth
               /\ Cardinality(default.enabledMethods) = 5
               /\ default.confidenceThreshold = 60
               /\ default.crossValidationRequired
               /\ Cardinality(performance.enabledMethods) = 3
               /\ performance.confidenceThreshold = 50
               /\ ~performance.crossValidationRequired
               /\ comprehensive.enabledMethods = MethodNames
               /\ Cardinality(comprehensive.enabledMethods) = 7
               /\ comprehensive.confidenceThreshold = 70
               /\ comprehensive.crossValidationRequired
               /\ performance.enabledMethods \subseteq default.enabledMethods
               /\ default.enabledMethods \subseteq comprehensive.enabledMethods
    /\ dpc = Returned =>
           /\ ConstructedWith(getDefaultConfig(analysisDepth))
                  => Len(detectionResults) = 5
           /\ ConstructedWith(getPerformanceConfig(analysisDepth))
                  => /\ Len(detectionResults) = 3
                     /\ \A k \in DOMAIN detectionResults :
                            detectionResults[k].method
                                \in getDefaultConfig(analysisDepth).enabledMethods
           /\ ConstructedWith(getComprehensiveConfig(analysisDepth))
                  => Len(detectionResults) = 7

\* A detector constructed with the performance preset has returned.
C28_Witness ==
    /\ dpc = Returned
    /\ ConstructedWith(getPerformanceConfig("shallow"))
    /\ Len(detectionResults) = 3

\* C29: the Host-Merge-Strategy algorithm votes squash only when the merge
\* commit has exactly one parent and its message matches a squash-indicator
\* pattern; a squash vote has confidence 0.95 and weight 0.4, and any other
\* verdict of the algorithm is non-squash with confidence at most 0.3.
C29_HostMergeStrategy ==
    \A result \in Votes("github-api-strategy") :
        /\ result.weight = 40
        /\ IF result.isSquash
              THEN /\ result.confidence = 95
                   /\ pr.parentCount = 1
                   /\ analyzeSquashIndicatorsInMessage(pr.message)
              ELSE result.confidence <= 30

\* Some merged event of the timeline carries the squash merge-strategy tag.
SquashTagged ==
    \E i \in 1..Len(timeline) :
        timeline[i].event = "merged" /\ timeline[i].merge_strategy = "squash"

MergedOrClosed ==
    \E i \in 1..Len(timeline) : timeline[i].event \in {"merged", "closed"}

\* C30: applied to a well-formed timeline, the Host-Events-Timeline algorithm
\* votes squash with confidence 0.95 and weight 0.3 whenever some merged event
\* carries the squash tag, whatever precedes it; without such an event it
\* votes non-squash with confidence 0.2 if a merged or closed event exists
\* and 0.1 otherwise.
C30_HostEventsTimeline ==
    \A result \in Votes("github-events-api") :
        result.confidence # 0 =>
            /\ result.weight = 30
            /\ IF SquashTagged
                  THEN result.isSquash /\ result.confidence = 95
                  ELSE /\ ~result.isSquash
                       /\ result.confidence = IF MergedOrClosed THEN 20 ELSE 10

-----------------------------------------------------------------------------
(* Claims about the node map of analyzeCommitLineage *)

\* The shas of the commits, branch and merge, of the data of pull request p.
PrShas(p) ==
    {gateway[p].prCommits[i].sha : i \in DOMAIN gateway[p].prCommits}
        \cup (IF gateway[p].mergeCommit = NoCommit THEN {}
              ELSE {gateway[p].mergeCommit.sha})

\* The step that follows is the rest of an iteration whose fetch resolved.
Resolving ==
    /\ apc = "awaiting"
    /\ gateway[pullRequestNumber].outcome = "ok"
    /\ now < deadline

\* C31: an iteration leaves a node that is already in the map entirely
\* unchanged unless its sha is that of the merge commit of the pull request
\* processed; the upsert of the merge commit keeps the node's place, sha and
\* message (it may change branch, type, parents and metadata only), and the
\* map grows by exactly the shas that were not in it.
C31_ExistingNodesKept ==
    [][/\ \A i \in DOMAIN nodes :
             /\ i \in DOMAIN nodes'
             /\ nodes'[i].sha = nodes[i].sha
             /\ nodes'[i].message = nodes[i].message
             /\ nodes'[i] # nodes[i] =>
                    /\ Resolving
                    /\ gateway[pullRequestNumber].mergeCommit # NoCommit
                    /\ gateway[pullRequestNumber].mergeCommit.sha = nodes[i].sha
       /\ Len(nodes') = Len(nodes) +
             (IF Resolving
                 THEN Cardinality(PrShas(pullRequestNumber) \
                                    {nodes[i].sha : i \in DOMAIN nodes})
                 ELSE 0)]_vars

\* Two pull requests share a branch commit, and the merge commit of the
\* second was upserted onto the node of a branch commit of the first.
C31_Witness ==
    /\ apc = "returned"
    /\ prsAnalyzed = <<5, 7>>
    /\ gateway[5].outcome = "ok" /\ gateway[7].outcome = "ok"
    /\ gateway[5].prCommits = <<commitC, commitA>>
    /\ gateway[7].prCommits = <<commitA>>
    /\ gateway[7].mergeCommit = commitC
    /\ Len(nodes) = 2
    /\ nodes[1].sha = "c" /\ nodes[1].branch = BaseRef(7) /\ nodes[1].type = "Squash"
    /\ nodes[2].sha = "a" /\ nodes[2].branch = HeadRef(5) /\ nodes[2].type = "Commit"

-----------------------------------------------------------------------------
(* Claims about detectGitOperation, checked under SpecClassify *)

\* The merge commit of the pull request analysed, and the types the
\* classification may give its node.
Classified == gateway[5].mergeCommit

RebaseTypes == {"Interactive Rebase", "Simple Rebase"}

\* C32: the type given to a merge commit follows from its parent count:
\* more than one parent gives Merge Commit, none gives Unknown, exactly one
\* gives Squash when the pull request has more than one branch commit or
\* the message matches a squash pattern, and a rebase type or Fast-Forward
\* otherwise; so with one parent and no branch commits it is Squash only if
\* the message matches.
C32_ClassifiedByParents ==
    MapHas(nodes, "m") =>
        LET type == MapGet(nodes, "m").type
            parentCount == Len(Classified.parents)
            commitCount == Len(gateway[5].prCommits)
            matches == matchesSquashKeywords(Classified.message)
        IN  /\ parentCount > 1 => type = "Merge Commit"
            /\ parentCount = 0 => type = "Unknown"
            /\ parentCount = 1 =>
                   IF commitCount > 1 \/ matches
                      THEN type = "Squash"
                      ELSE type \in RebaseTypes \cup {"Fast-Forward"}
            /\ (parentCount = 1 /\ commitCount = 0 /\ type = "Squash") => matches

\* One parent, one branch commit and no keyword: a rebase, not a squash.
C32_Witness ==
    /\ apc = "returned"
    /\ MapHas(nodes, "m")
    /\ Len(Classified.parents) = 1
    /\ Len(gateway[5].prCommits) = 1
    /\ ~matchesSquashKeywords(Classified.message)
    /\ MapGet(nodes, "m").type = "Simple Rebase"

-----------------------------------------------------------------------------
(* Claims about the order of the fetches of one analysis *)

\* The call of getPullRequestData issued last is still running: it is
\* awaited, or the timer of withTimeout has fired on it at this instant.
\* Promise.race settles the await; it does not cancel the fetch that lost.
LastFetchRunning ==
    /\ fetchLog # <<>>
    /\ \/ apc = "awaiting"
       \/ /\ gateway[fetchLog[Len(fetchLog)]].outcome = "hang"
          /\ now >= deadline

\* The data of pull request q, fetched, names pull request p in the message
\* of a branch commit or of the merge commit.
Reveals(q, p) ==
    /\ gateway[q].outcome = "ok"
    /\ \/ \E k \in DOMAIN gateway[q].prCommits :
             parsePrNumberFromMessage(gateway[q].prCommits[k].message) = p
       \/ parsePrNumberFromMessage(gateway[q].mergeCommit.message) = p

IsPrefix(s, t) == Len(s) <= Len(t) /\ \A k \in DOMAIN s : s[k] = t[k]

\* The fetches are issued in the order of the queue, the initial pull
\* request first, each after the fetch of the pull request that named it.
FetchedInQueueOrder ==
    /\ [][fetchLog' # fetchLog =>
             /\ fetchLog' = Append(fetchLog, Head(prQueue))
             /\ prQueue' = Tail(prQueue)]_vars
    /\ [][\/ IsPrefix(prQueue, prQueue')
          \/ prQueue # <<>> /\ IsPrefix(Tail(prQueue), prQueue')]_vars
    /\ [](fetchLog # <<>> => fetchLog[1] = prsAnalyzed[1])
    /\ [](\A i \in DOMAIN fetchLog :
             i > 1 => \E j \in 1..(i - 1) :
                         /\ Reveals(fetchLog[j], fetchLog[i])
                         /\ ~(apc = "awaiting" /\ j = Len(fetchLog)))

\* C33: in one analysis at most one fetch is in flight at any time (a fetch
\* is issued only when none is still running), and the pull requests are
\* fetched in the order in which they were enqueued, the initial one first,
\* none before the pull request whose commit message revealed it.
C33_OneFetchAtATime ==
    /\ [][fetchLog' # fetchLog => ~LastFetchRunning]_vars
    /\ FetchedInQueueOrder

-----------------------------------------------------------------------------
(* Claims about the weight of the events algorithm under the presets *)

UnderPreset(preset) == dpc = Returned /\ ConstructedWith(preset)

\* Every algorithm other than the events algorithm has voted squash, and the
\* events algorithm has voted non-squash.
OnlyEventsDissents ==
    \A k \in DOMAIN detectionResults :
        detectionResults[k].isSquash <=>
            detectionResults[k].method # "github-events-api"

\* C34: under the default and under the comprehensive preset the aggregate
\* verdict is squash only if the events algorithm has voted squash; when
\* all the other enabled algorithms vote squash and the events algorithm
\* does not, the blended confidence is at most 0.68/1.15 under the default
\* and 0.79/1.30 under the comprehensive preset, below the threshold of the
\* preset (0.6, 0.7).
C34_EventsVoteNeeded ==
    /\ (UnderPreset(getDefaultConfig("shallow"))
           \/ UnderPreset(getComprehensiveConfig("shallow")))
        => (verdict.isSquash => VotesSquash("github-events-api"))
    /\ (UnderPreset(getDefaultConfig("shallow")) /\ OnlyEventsDissents)
        => /\ verdict.confidence.den = 115
           /\ verdict.confidence.num <= 6800
           /\ compareConfidence(detectionResults, 60) < 0
    /\ (UnderPreset(getComprehensiveConfig("shallow")) /\ OnlyEventsDissents)
        => /\ verdict.confidence.den = 130
           /\ verdict.confidence.num <= 7900
           /\ compareConfidence(detectionResults, 70) < 0

\* Under the default preset every other algorithm votes squash at its
\* highest confidence, and the verdict is non-squash at 0.68/1.15.
C34_Witness ==
    /\ UnderPreset(getDefaultConfig("shallow"))
    /\ OnlyEventsDissents
    /\ verdict.confidence = [num |-> 6800, den |-> 115]
    /\ ~verdict.isSquash

-----------------------------------------------------------------------------
(* Claims about the breaker after its reset window, checked under SpecCB *)

\* The reset window has elapsed on a breaker that had opened.
WindowElapsed ==
    failures >= maxFailures /\ now - lastFailureTime >= resetTimeoutMs

\* The step in which the operation of caller c is found to have failed.
FailStep(c) == SettleStep(c) /\ calls'[c].outcome \in {"error", "Timeout"}

\* C35: the passing of the reset window does not clear the failure counter:
\* the counter changes only when an operation settles, a trial that fails
\* after the window leaves the breaker open with the window starting anew
\* at that instant, and the counter goes down only to zero, on a success.
C35_WindowKeepsCounter ==
    /\ [][(\A c \in Callers : ~SettleStep(c)) => failures' = failures]_vars
    /\ [][\A c \in Callers :
             (FailStep(c) /\ failures >= maxFailures) =>
                 /\ failures' = failures + 1
                 /\ lastFailureTime' = now
                 /\ isOpen']_vars
    /\ [][failures' < failures =>
             /\ failures' = 0
             /\ \E c \in Callers : SettleStep(c) /\ calls'[c].outcome = "result"]_vars

\* More failures than the breaker admits without a trial: a trial admitted
\* after the window has failed, and the breaker is open again from now on.
C35_Witness ==
    /\ failures >= maxFailures + NumCallers
    /\ lastFailureTime = now
    /\ now >= StartNow + resetTimeoutMs
    /\ isOpen
    /\ \E c \in Callers :
          calls[c].pc = "done" /\ calls[c].outcome \in {"error", "Timeout"}

-----------------------------------------------------------------------------
(* Claims about an analysis whose breaker has opened *)

\* maxFailures fetches in a row have failed, the last of them less than
\* resetTimeoutMs ago.
FetchesKeepFailing ==
    failedSinceOk >= maxFailures /\ now - lastFailedAt < resetTimeoutMs

\* The step dequeues a pull request that has not been processed.
DequeueStep ==
    /\ apc = "loop"
    /\ iterations' = iterations + 1
    /\ Head(prQueue) \notin processedPRs

\* C36: once three fetches in a row have failed, a pull request dequeued
\* while the breaker is open is rejected without a call of the gateway; it
\* is added to the visited set and to the pull requests listed as analysed,
\* adds no node, and is not fetched later in the call.
C36_OpenBreakerSkipsPr ==
    /\ [][(DequeueStep /\ FetchesKeepFailing) =>
             /\ fetchLog' = fetchLog
             /\ gateway' = gateway
             /\ apc' = "loop"
             /\ processedPRs' = processedPRs \cup {Head(prQueue)}
             /\ prsAnalyzed' = Append(prsAnalyzed, Head(prQueue))
             /\ nodes' = nodes]_vars
    /\ [][fetchLog' # fetchLog =>
             \A k \in DOMAIN prsAnalyzed : prsAnalyzed[k] # Head(prQueue)]_vars
    /\ [](\A p \in PrNumbers : Count(prsAnalyzed, p) <= 1)

\* Pull request 5 names 9, 11, 13 and 7; the fetches of 9, 11 and 13 fail,
\* and 7 is listed without having been fetched.
C36_Witness ==
    /\ apc = "returned"
    /\ fetchLog = <<5, 9, 11, 13>>
    /\ prsAnalyzed = <<5, 9, 11, 13, 7>>
    /\ 7 \in processedPRs
    /\ gateway[7] = Unasked
    /\ nodes = processMergeCommit(gateway[5], 5, {5},
                   processBranchCommits(gateway[5].prCommits, HeadRef(5), {5},
                                        [nodes |-> <<>>, prQueue |-> <<>>], 1)).nodes

-----------------------------------------------------------------------------
(* Claims about the type of a node that is a merge commit *)

\* The pull requests worked through whose merge commit has the given sha.
MergedBy(sha) ==
    {p \in Worked : gateway[p].mergeCommit # NoCommit
                       /\ gateway[p].mergeCommit.sha = sha}

\* C37: a node that has been given the type of a merge commit is never set
\* back to "Commit" by a later step of the call, and the node of a sha that
\* is the merge commit of a pull request worked through carries a merge
\* classification and the base branch label of such a pull request, whether
\* the pull request that has the sha as a branch commit came first or not.
C37_MergeTypeSticks ==
    /\ [][\A i \in DOMAIN nodes :
             nodes[i].type # "Commit" =>
                 i \in DOMAIN nodes' /\ nodes'[i].type # "Commit"]_vars
    /\ [](\A i \in DOMAIN nodes :
             MergedBy(nodes[i].sha) # {} =>
                 /\ nodes[i].type # "Commit"
                 /\ \E p \in MergedBy(nodes[i].sha) :
                        /\ nodes[i].branch = BaseRef(p)
                        /\ nodes[i].type =
                               detectGitOperation(gateway[p].mergeCommit,
                                   gateway[p].prCommits, gateway[p].timelineEvents))

\* c is a branch commit of pull request 5 and the merge commit of 7, a is
\* the merge commit of 5 and a branch commit of 7: each order in one call.
C37_Witness ==
    /\ apc = "returned"
    /\ prsAnalyzed = <<5, 7>>
    /\ gateway[5].outcome = "ok" /\ gateway[7].outcome = "ok"
    /\ gateway[5].prCommits = <<commitC>> /\ gateway[5].mergeCommit = commitA
    /\ gateway[7].prCommits = <<commitA>> /\ gateway[7].mergeCommit = commitC
    /\ MapGet(nodes, "c").branch = BaseRef(7) /\ MapGet(nodes, "c").type # "Commit"
    /\ MapGet(nodes, "a").branch = BaseRef(5) /\ MapGet(nodes, "a").type # "Commit"

-----------------------------------------------------------------------------
(* Claims about one breaker shared by concurrent callers *)

\* The failure counter goes down only to zero, in a step in which an
\* operation resolved.
CounterOnlyResets ==
    [][failures' < failures =>
          /\ failures' = 0
          /\ \E c \in Callers : SettleStep(c) /\ calls'[c].outcome = "result"]_vars

\* C38: under every interleaving of the execute calls that share a breaker
\* the failure counter never decreases except to zero on a success, and an
\* open breaker stays open until the reset window has elapsed, also when an
\* operation admitted before it opened resolves afterwards.
C38_SharedBreakerConsistent ==
    /\ CounterOnlyResets
    /\ [][(isOpen /\ now' - lastFailureTime < resetTimeoutMs) => isOpen']_vars

====
